---------------------------- MODULE Spec2Model ----------------------------
(***************************************************************************)
(* Model of the go-agent-guide resource gateway: the resource registry     *)
(* (loader, path normalisation, longest-prefix lookup), the per-resource   *)
(* middleware chain (auth, seller payment), the request handler and the    *)
(* reverse proxy with its 402 handling.                                    *)
(*                                                                         *)
(* The repository holds three deployments of the gateway, told apart by   *)
(* the variable "variant":                                                 *)
(*   "file"   resources are read from resources.json, one catch-all route  *)
(*            /api/*path, plain single-host reverse proxy;                 *)
(*   "config" resources are converted from the endpoints of the in-memory  *)
(*            configuration, one route group per resource, capturing       *)
(*            proxy with automatic payment on an origin 402;               *)
(*   "agent"  as "config", with the automatic payment moved into an        *)
(*            interceptor of the reverse proxy, installed for resources    *)
(*            tagged x402-buyer.                                           *)
(* The auth and payment middlewares are the same code in all three.        *)
(*                                                                         *)
(* Strings that the code takes apart (paths, the Authorization header) are *)
(* sequences of symbols; an optional pointer is a sequence of length 0     *)
(* (nil) or 1.                                                             *)
(***************************************************************************)
EXTENDS Integers, Sequences, FiniteSets, TLC

VARIABLES
    mainProc, \* main and its two servers: server states, the cancel context, the quit channel, the exit code
    requestBody, \* c.Request.Body: the bytes not yet read and whether the stream was closed
    interceptorsChain, \* AgentReverseProxy.interceptors: what each registered one does when called
    realWriter, \* the client side gin c.Writer that the capture wraps
    capture, \* the ResponseCapture of the proxy pass: statusCode, body, headerWritten, headers
    configFile, \* config.yaml endpoints as the operator last wrote them ("config", "agent")
    authConfig, \* cfg.AdminServer: AuthEnabled, AuthType, AuthTokens
    variant,    \* which deployment: "file", "config" or "agent"
    source,     \* the configuration source: resources.json entries or cfg endpoints
    privKey,    \* cfg.Facilitator.PrivateKey ("" when not configured)
    modified,   \* "file" deployment: resources.json is newer than lastLoadTime
    resources,  \* ResourceGateway.resources: map path -> ResourceConfig
    req,        \* the inbound request (path, Authorization, X-Payment, other headers)
    pc,         \* position of the request in the gin handler chain
    ctx,        \* gin context bag: resource_config, auth_token, payment_payer, ...
    resp,       \* responses written to the real client writer, in order
    events,     \* log of external calls (facilitator, origin) and stage results
    found,      \* result of the last FindResource call
    resourcesMutex, \* ResourceGateway.resourcesMutex: write holder and read holders
    thr,        \* per goroutine: position in ReloadResourcesIfNeeded / the read, locals
    snapshots   \* history: the maps that completed loads have published

vars == <<mainProc, requestBody, interceptorsChain, realWriter, capture, configFile, authConfig, variant, source, privKey, modified,
          resources, req, pc, ctx, resp, events, found, resourcesMutex, thr, snapshots>>

----------------------------------------------------------------------------
(* Bounds of the model *)

\* longest raw endpoint path drawn for the lookup specification
MaxPathLen == 3
\* longest request path drawn for the lookup specification
MaxReqLen == 3
\* most entries in the configuration source
MaxEndpoints == 2

\* goroutines that serve requests at the same time
NumThreads == 2

Threads == 1..NumThreads

\* NewResponseCapture: nothing recorded yet
NewResponseCapture ==
    [statusCode |-> 200, body |-> << >>, headerWritten |-> FALSE, headers |-> << >>]

\* the client's gin response writer before anything was written: status is
\* the pending status, sent the status line and headers once committed
NewWriter ==
    [status |-> 200, written |-> FALSE, headers |-> << >>, sent |-> << >>, body |-> << >>]

\* main after both servers were created and before any goroutine ran:
\* httpServer is nil in both, the process has no exit code (-1)
NotStarted ==
    [gateway |-> "created", admin |-> "created", cancelled |-> FALSE, quit |-> FALSE,
     main |-> "select", exit |-> -1]

\* the admin listener's auth settings when authentication is switched off
NoAdminAuth == [AuthEnabled |-> FALSE, AuthType |-> "", AuthTokens |-> << >>]

\* sync.RWMutex: writer = 0 when no goroutine holds the write lock
FreeMutex == [writer |-> 0, readers |-> {}]

\* the locals of a goroutine outside any call
IdleThread ==
    [pc |-> "idle", op |-> "", data |-> << >>, i |-> 0, ran |-> FALSE,
     err |-> FALSE, before |-> << >>, after |-> << >>, seen |-> << >>]

----------------------------------------------------------------------------
(* Strings as sequences *)

PathChars == {"/", "a"}

SeqsUpTo(S, n) == UNION {[1..k -> S] : k \in 0..n}

\* strings.HasPrefix
HasPrefix(s, p) == Len(p) <= Len(s) /\ SubSeq(s, 1, Len(p)) = p

\* strings.HasSuffix(s, "/")
HasSuffixSlash(s) == Len(s) > 0 /\ s[Len(s)] = "/"

\* strings.TrimSuffix(s, "/"): removes one trailing slash if there is one
TrimSuffixSlash(s) == IF HasSuffixSlash(s) THEN SubSeq(s, 1, Len(s) - 1) ELSE s

\* the path normalisation of loadResources
NormalizePath(p) ==
    LET p1 == IF HasPrefix(p, <<"/">>) THEN p ELSE <<"/">> \o p
    IN  IF p1 # <<"/">> /\ HasSuffixSlash(p1) THEN TrimSuffixSlash(p1) ELSE p1


----------------------------------------------------------------------------
(* Facilitator configuration (cfg.Facilitator) *)

\* facilitator.chain_networks: one configured network
ChainNetworks ==
    << [Name |-> "net1", TokenAddress |-> "0xT", TokenName |-> "USDC",
        TokenVersion |-> "1", TokenType |-> ""] >>

\* facilitator.supported_schemes
SupportedSchemes == << "exact" >>

\* findChainNetwork: the first chain network with that name, or nil
findChainNetwork(networkName) ==
    LET hits == {i \in 1..Len(ChainNetworks) : ChainNetworks[i].Name = networkName}
    IN  IF hits = {} THEN << >>
        ELSE << ChainNetworks[CHOOSE i \in hits : \A j \in hits : i <= j] >>

----------------------------------------------------------------------------
(* Resource registry: conversion and loading *)

\* buildX402PaymentRequirements: nil when the network is not configured
buildX402PaymentRequirements(endpoint, networkName, payTo, maxAmountRequired) ==
    LET chainNetwork == findChainNetwork(networkName)
        scheme == IF Len(SupportedSchemes) > 0 THEN SupportedSchemes[1] ELSE "exact"
    IN  IF chainNetwork = << >> THEN << >>
        ELSE << [Scheme            |-> scheme,
                 Network           |-> networkName,
                 Resource          |-> endpoint.Endpoint,
                 Description       |-> endpoint.Description,
                 MaxAmountRequired |-> maxAmountRequired,
                 PayTo             |-> payTo,
                 AssetType         |-> IF chainNetwork[1].TokenType = "" THEN "ERC20"
                                       ELSE chainNetwork[1].TokenType,
                 Asset             |-> chainNetwork[1].TokenAddress,
                 TokenName         |-> chainNetwork[1].TokenName,
                 TokenVersion      |-> chainNetwork[1].TokenVersion] >>

\* one iteration of the middlewares loop of convertEndpointToResource
convertMiddleware(endpoint, resource, mwMap) ==
    IF mwMap.key = "auth" THEN
        [resource EXCEPT
            !.Middlewares = Append(@, "auth"),
            !.Auth = IF mwMap.cfg # << >> /\ mwMap.cfg[1].type # "" /\ mwMap.cfg[1].token # << >>
                     THEN << [Type |-> mwMap.cfg[1].type, Token |-> mwMap.cfg[1].token] >>
                     ELSE @]
    ELSE IF mwMap.key = "x402-seller" THEN
        [resource EXCEPT
            !.Middlewares = Append(@, "x402-seller"),
            !.X402 = IF mwMap.cfg # << >> /\ mwMap.cfg[1].network # ""
                        /\ mwMap.cfg[1].payto # "" /\ mwMap.cfg[1].maxamountrequired # ""
                     THEN buildX402PaymentRequirements(endpoint, mwMap.cfg[1].network,
                              mwMap.cfg[1].payto, mwMap.cfg[1].maxamountrequired)
                     ELSE @]
    ELSE resource

RECURSIVE convertMiddlewares(_, _, _)
convertMiddlewares(endpoint, resource, i) ==
    IF i > Len(endpoint.Middlewares) THEN resource
    ELSE convertMiddlewares(endpoint,
             convertMiddleware(endpoint, resource, endpoint.Middlewares[i]), i + 1)

\* convertEndpointToResource: EndpointConfig -> ResourceConfig
convertEndpointToResource(endpoint) ==
    convertMiddlewares(endpoint,
        [Resource    |-> endpoint.Endpoint,
         Type        |-> endpoint.Type,
         Middlewares |-> << >>,
         Auth        |-> << >>,
         X402        |-> << >>,
         TargetURL   |-> endpoint.TargetURL], 1)

\* the body of the loop of loadResources: normalise the path and store under it
storeResource(m, resource) ==
    LET resourcePath == NormalizePath(resource.Resource)
    IN  (resourcePath :> [resource EXCEPT !.Resource = resourcePath]) @@ m

\* loadResources of the "config" deployment: rebuild the map from cfg endpoints
RECURSIVE loadFromConfig(_, _, _)
loadFromConfig(endpoints, i, m) ==
    IF i > Len(endpoints) THEN m
    ELSE loadFromConfig(endpoints, i + 1,
             storeResource(m, convertEndpointToResource(endpoints[i])))

\* conversion of the "agent" deployment: as convertEndpointToResource, and an
\* x402-buyer entry of the endpoint becomes the tag "x402-buyer"
convertEndpointToResourceAgent(endpoint) ==
    LET resource == convertEndpointToResource(endpoint)
    IN  IF \E i \in 1..Len(endpoint.Middlewares) : endpoint.Middlewares[i].key = "x402-buyer"
        THEN [resource EXCEPT !.Middlewares = Append(@, "x402-buyer")]
        ELSE resource

\* loadResources of the "agent" deployment
RECURSIVE loadFromConfigAgent(_, _, _)
loadFromConfigAgent(endpoints, i, m) ==
    IF i > Len(endpoints) THEN m
    ELSE loadFromConfigAgent(endpoints, i + 1,
             storeResource(m, convertEndpointToResourceAgent(endpoints[i])))

\* loadResources of the "file" deployment: rebuild the map from resources.json
RECURSIVE loadFromFile(_, _, _)
loadFromFile(list, i, m) ==
    IF i > Len(list) THEN m
    ELSE loadFromFile(list, i + 1, storeResource(m, list[i]))

\* loadResources: a fresh map filled from the source
loadResources(v, src) ==
    IF v = "config" THEN loadFromConfig(src, 1, << >>)
    ELSE IF v = "agent" THEN loadFromConfigAgent(src, 1, << >>)
    ELSE loadFromFile(src, 1, << >>)

\* ReloadResourcesIfNeeded: the "config" and "agent" deployments always reload;
\* the "file" deployment reloads only when resources.json is newer than the
\* last load
ReloadResourcesIfNeeded(v, src, current, isModified) ==
    IF v # "file" \/ isModified THEN loadResources(v, src) ELSE current

----------------------------------------------------------------------------
(* Resource registry: lookup *)

\* mutant of prefixStep: the length comparison is lost, any matching prefix wins
prefixStepAnyPrefix(best, path, normalizedPath, resourcePath, resource) ==
    IF HasPrefix(path, resourcePath)
       \/ (normalizedPath # path /\ HasPrefix(normalizedPath, resourcePath))
    THEN [bestMatch |-> << resource >>, bestMatchLen |-> Len(resourcePath)]
    ELSE best

\* mutant of prefixStep: the first matching entry visited is kept
prefixStepFirstMatch(best, path, normalizedPath, resourcePath, resource) ==
    IF best.bestMatch = << >>
       /\ (HasPrefix(path, resourcePath)
           \/ (normalizedPath # path /\ HasPrefix(normalizedPath, resourcePath)))
    THEN [bestMatch |-> << resource >>, bestMatchLen |-> Len(resourcePath)]
    ELSE best

\* one iteration of the prefix loop of FindResource;
\* best = [bestMatch |-> nil or <<resource>>, bestMatchLen |-> its key length]
prefixStep(best, path, normalizedPath, resourcePath, resource) ==
    LET b1 == IF HasPrefix(path, resourcePath) /\ Len(resourcePath) > best.bestMatchLen
              THEN [bestMatch |-> << resource >>, bestMatchLen |-> Len(resourcePath)]
              ELSE best
    IN  IF normalizedPath # path /\ HasPrefix(normalizedPath, resourcePath)
           /\ Len(resourcePath) > b1.bestMatchLen
        THEN [bestMatch |-> << resource >>, bestMatchLen |-> Len(resourcePath)]
        ELSE b1

\* the prefix loop, visiting the map keys in the given order
RECURSIVE prefixLoop(_, _, _, _, _, _)
prefixLoop(m, order, i, path, normalizedPath, best) ==
    IF i > Len(order) THEN best.bestMatch
    ELSE prefixLoop(m, order, i + 1, path, normalizedPath,
             prefixStep(best, path, normalizedPath, order[i], m[order[i]]))

\* mutant of FindResourceIn: a path that matches nothing falls back to the
\* first entry visited
FindResourceInDefault(m, order, path) ==
    LET normalizedPath == TrimSuffixSlash(path)
    IN  IF path \in DOMAIN m THEN << m[path] >>
        ELSE IF normalizedPath # path /\ normalizedPath \in DOMAIN m
             THEN << m[normalizedPath] >>
        ELSE IF Len(order) = 0 THEN << >>
        ELSE prefixLoop(m, order, 1, path, normalizedPath,
                        [bestMatch |-> << m[order[1]] >>, bestMatchLen |-> 0])

\* FindResource with the map iterated in the given key order
FindResourceIn(m, order, path) ==
    LET normalizedPath == TrimSuffixSlash(path)
    IN  IF path \in DOMAIN m THEN << m[path] >>
        ELSE IF normalizedPath # path /\ normalizedPath \in DOMAIN m
             THEN << m[normalizedPath] >>
        ELSE prefixLoop(m, order, 1, path, normalizedPath,
                        [bestMatch |-> << >>, bestMatchLen |-> 0])

\* the orders in which a Go map with these keys can be iterated
KeyOrders(m) ==
    {o \in [1..Cardinality(DOMAIN m) -> DOMAIN m] :
        \A i, j \in 1..Cardinality(DOMAIN m) : i # j => o[i] # o[j]}

----------------------------------------------------------------------------
(* Request headers and their parsing *)

\* gin Context.GetHeader: "" when the header is absent
GetHeader(headers, name) == IF name \in DOMAIN headers THEN headers[name] ELSE << >>

\* strings.Split(s, " ")
RECURSIVE SplitSpace(_)
SplitSpace(s) ==
    LET spaces == {i \in 1..Len(s) : s[i] = " "}
    IN  IF spaces = {} THEN << s >>
        ELSE LET i == CHOOSE x \in spaces : \A y \in spaces : x <= y
             IN  << SubSeq(s, 1, i - 1) >> \o SplitSpace(SubSeq(s, i + 1, Len(s)))

\* json.Unmarshal of the X-Payment header into a PaymentPayload: the header is
\* the symbols of a JSON object, "{" [scheme network] "}"; missing fields stay ""
UnmarshalPayment(h) ==
    IF Len(h) = 4 /\ h[1] = "{" /\ h[4] = "}"
    THEN [ok |-> TRUE, Scheme |-> h[2], Network |-> h[3]]
    ELSE IF h = << "{", "}" >>
    THEN [ok |-> TRUE, Scheme |-> "", Network |-> ""]
    ELSE [ok |-> FALSE, Scheme |-> "", Network |-> ""]

\* json.Marshal of a PaymentPayload
MarshalPayment(payload) == << "{", payload.Scheme, payload.Network, "}" >>

\* the loop over resource.Middlewares looking for a middleware name
hasMiddleware(resource, name) ==
    \E i \in 1..Len(resource.Middlewares) : resource.Middlewares[i] = name

----------------------------------------------------------------------------
(* Responses written to the client and log entries *)

\* c.JSON(status, types.ErrorResponse{Error: kind, ...})
ErrorResponse(status, kind) ==
    [status |-> status, error |-> kind, payReqHeader |-> FALSE,
     paymentRequirements |-> << >>, origin |-> 0]

\* a response of the origin relayed to the client (pass 1 or 2)
OriginResponse(pass, status) ==
    [status |-> status, error |-> "", payReqHeader |-> FALSE,
     paymentRequirements |-> << >>, origin |-> pass]

\* the 502 the proxy's ErrorHandler writes on a transport error
BadGateway == ErrorResponse(502, "bad_gateway")

\* returnPaymentRequired
returnPaymentRequired(resource) ==
    IF resource.X402 = << >> THEN ErrorResponse(500, "internal_error")
    ELSE [status |-> 402, error |-> "payment_required", payReqHeader |-> TRUE,
          paymentRequirements |-> resource.X402, origin |-> 0]

----------------------------------------------------------------------------
(* Routing (RegisterRoutes) *)

\* "file" deployment: the group /api with the catch-all /*path;
\* "config" and "agent" deployments: per resource the routes <path> and
\* <path>/*path
RouteMatches(v, m, path) ==
    IF v = "file" THEN HasPrefix(path, << "/", "api", "/" >>)
    ELSE \E k \in DOMAIN m :
            LET normalizedPath == IF k # << "/" >> THEN TrimSuffixSlash(k) ELSE k
            IN  \/ path = normalizedPath
                \/ HasPrefix(path, IF normalizedPath = << "/" >> THEN normalizedPath
                                   ELSE normalizedPath \o << "/" >>)

\* mutant of afterAuth: the rejection does not abort the chain
afterAuthNoAbort(rejected) == "pay"

\* where the gin chain goes after the auth middleware: Abort ends it
afterAuth(rejected) == IF rejected THEN "done" ELSE "pay"

\* where the gin chain goes after the payment middleware: Abort ends it
afterPay(aborted) == IF aborted THEN "done" ELSE "handler"

----------------------------------------------------------------------------
(* Auth middleware (ResourceAuthMiddleware) *)

\* the decision of the auth middleware for a resolved resource
authDecision(resource, headers) ==
    IF ~hasMiddleware(resource, "auth") \/ resource.Auth = << >>
    THEN [kind |-> "skip", token |-> << >>]
    ELSE IF resource.Auth[1].Type = "bearer"
    THEN LET authHeader == GetHeader(headers, "Authorization")
             parts == SplitSpace(authHeader)
         IN  IF authHeader = << >>
             THEN [kind |-> "missing_authorization", token |-> << >>]
             ELSE IF Len(parts) # 2 \/ parts[1] # << "Bearer" >>
             THEN [kind |-> "invalid_authorization_format", token |-> << >>]
             ELSE IF parts[2] # resource.Auth[1].Token
             THEN [kind |-> "invalid_token", token |-> << >>]
             ELSE [kind |-> "pass", token |-> parts[2]]
    ELSE [kind |-> "unchecked", token |-> << >>]

AuthRejections == {"missing_authorization", "invalid_authorization_format", "invalid_token"}

ResourceAuthMiddleware ==
    /\ pc = "auth"
    /\ LET reloaded == ReloadResourcesIfNeeded(variant, source, resources, modified)
       IN  /\ resources' = reloaded
           /\ modified' = FALSE
           /\ \E order \in KeyOrders(reloaded) :
                LET resource == FindResourceIn(reloaded, order, req.path)
                    d == authDecision(resource[1], req.headers)
                IN  /\ found' = resource
                    /\ IF resource = << >>
                       THEN /\ ctx' = ctx
                            /\ resp' = resp
                            /\ events' = Append(events, [op |-> "auth", result |-> "notfound"])
                            /\ pc' = afterAuth(FALSE)
                       ELSE /\ ctx' = [ctx EXCEPT !.resource_config = resource,
                                                  !.auth_token = IF d.kind = "pass" THEN d.token ELSE @]
                            /\ resp' = IF d.kind \in AuthRejections
                                       THEN Append(resp, ErrorResponse(401, d.kind)) ELSE resp
                            /\ events' = Append(events, [op |-> "auth", result |-> d.kind])
                            /\ pc' = afterAuth(d.kind \in AuthRejections)
    /\ UNCHANGED <<mainProc, requestBody, interceptorsChain, realWriter, capture, configFile, authConfig, resourcesMutex, thr, snapshots, variant, source, privKey, req>>

----------------------------------------------------------------------------
(* Payment middleware (ResourcePayMiddleware, processPayment) *)

\* whether the payment middleware treats the resource as requiring payment
requiresPayment(resource) == hasMiddleware(resource, "x402") /\ resource.X402 # << >>

FacilitatorVerify == {"error", "invalid", "valid"}
FacilitatorSettle == {"error", "failed", "success"}

\* mutant of processPayment: the scheme and network of the payload are not
\* compared with the requirements before the facilitator is called
processPaymentNoMatch(resource, paymentHeader, verifyResp, settleResp) ==
    LET paymentPayload == UnmarshalPayment(paymentHeader)
        verifyCall == [op |-> "verify", result |-> verifyResp]
        settleCall == [op |-> "settle", result |-> settleResp]
    IN  IF ~paymentPayload.ok THEN [err |-> "parse", log |-> << >>]
        ELSE IF resource.X402 = << >> THEN [err |-> "no_x402", log |-> << >>]
        ELSE IF verifyResp = "error" THEN [err |-> "verify_error", log |-> << verifyCall >>]
        ELSE IF verifyResp = "invalid" THEN [err |-> "verify_invalid", log |-> << verifyCall >>]
        ELSE IF settleResp = "error"
        THEN [err |-> "settle_error", log |-> << verifyCall, settleCall >>]
        ELSE IF settleResp = "failed"
        THEN [err |-> "settle_failed", log |-> << verifyCall, settleCall >>]
        ELSE [err |-> "", log |-> << verifyCall, settleCall >>]

\* processPayment, given what the facilitator answers to verify and to settle:
\* err is "" on success; log holds the facilitator calls made
processPayment(resource, paymentHeader, verifyResp, settleResp) ==
    LET paymentPayload == UnmarshalPayment(paymentHeader)
        verifyCall == [op |-> "verify", result |-> verifyResp]
        settleCall == [op |-> "settle", result |-> settleResp]
    IN  IF ~paymentPayload.ok THEN [err |-> "parse", log |-> << >>]
        ELSE IF resource.X402 = << >> THEN [err |-> "no_x402", log |-> << >>]
        ELSE IF paymentPayload.Scheme # resource.X402[1].Scheme
                \/ paymentPayload.Network # resource.X402[1].Network
        THEN [err |-> "mismatch", log |-> << >>]
        ELSE IF verifyResp = "error" THEN [err |-> "verify_error", log |-> << verifyCall >>]
        ELSE IF verifyResp = "invalid" THEN [err |-> "verify_invalid", log |-> << verifyCall >>]
        ELSE IF settleResp = "error"
        THEN [err |-> "settle_error", log |-> << verifyCall, settleCall >>]
        ELSE IF settleResp = "failed"
        THEN [err |-> "settle_failed", log |-> << verifyCall, settleCall >>]
        ELSE [err |-> "", log |-> << verifyCall, settleCall >>]

ResourcePayMiddleware ==
    /\ pc = "pay"
    /\ LET reloaded == ReloadResourcesIfNeeded(variant, source, resources, modified)
       IN  /\ resources' = reloaded
           /\ modified' = FALSE
           /\ \E order \in KeyOrders(reloaded) :
                LET resource == FindResourceIn(reloaded, order, req.path)
                    paymentHeader == GetHeader(req.headers, "X-Payment")
                IN  /\ found' = resource
                    /\ IF resource = << >>
                       THEN /\ ctx' = ctx
                            /\ resp' = resp
                            /\ events' = Append(events, [op |-> "pay", result |-> "notfound"])
                            /\ pc' = afterPay(FALSE)
                       ELSE IF ~requiresPayment(resource[1])
                       THEN /\ ctx' = [ctx EXCEPT !.resource_config = resource]
                            /\ resp' = resp
                            /\ events' = Append(events, [op |-> "pay", result |-> "skip"])
                            /\ pc' = afterPay(FALSE)
                       ELSE IF paymentHeader = << >>
                       THEN /\ ctx' = [ctx EXCEPT !.resource_config = resource]
                            /\ resp' = Append(resp, returnPaymentRequired(resource[1]))
                            /\ events' = Append(events, [op |-> "pay", result |-> "challenge"])
                            /\ pc' = afterPay(TRUE)
                       ELSE \E verifyResp \in FacilitatorVerify, settleResp \in FacilitatorSettle :
                              LET r == processPayment(resource[1], paymentHeader,
                                                      verifyResp, settleResp)
                              IN  /\ ctx' = [ctx EXCEPT !.resource_config = resource,
                                                 !.payment_payer = IF r.err = "" THEN "payer" ELSE @]
                                  /\ resp' = IF r.err # ""
                                             THEN Append(resp, ErrorResponse(402, "payment_failed"))
                                             ELSE resp
                                  /\ events' = events \o r.log \o
                                        << [op |-> "pay",
                                            result |-> IF r.err = "" THEN "paid" ELSE r.err] >>
                                  /\ pc' = afterPay(r.err # "")
    /\ UNCHANGED <<mainProc, requestBody, interceptorsChain, realWriter, capture, configFile, authConfig, resourcesMutex, thr, snapshots, variant, source, privKey, req>>

----------------------------------------------------------------------------
(* Reverse proxy and request handler (ProxyRequest, HandleResourceRequest) *)

\* what a proxy pass to the origin can produce: a response of the origin, or a
\* transport error that the proxy's ErrorHandler turns into a 502
OriginOutcomes ==
    { [transport |-> FALSE, status |-> 200],
      [transport |-> FALSE, status |-> 402],
      [transport |-> TRUE,  status |-> 502] }

\* bodies an origin sends with a 402: not JSON, JSON without paymentRequirements
\* (the zero value is decoded), or an envelope naming scheme and network
OriginBodies ==
    { [json |-> FALSE, Scheme |-> "", Network |-> ""],
      [json |-> TRUE,  Scheme |-> "", Network |-> ""],
      [json |-> TRUE,  Scheme |-> "exact", Network |-> "net1"],
      [json |-> TRUE,  Scheme |-> "exact", Network |-> "netX"] }

\* url.Parse(resource.TargetURL) fails
urlParseFails(target) == target = "::bad"

\* Director of the "file" deployment: X-Payment deleted, other headers kept
directorFile(headers) ==
    [n \in DOMAIN headers \ {"X-Payment"} |-> headers[n]]

\* Director of NewAgentReverseProxy: the outgoing request is a clone of the
\* request handed to ServeHTTP (outHeaders); every header of the gin request
\* except X-Payment is then assigned over it
directorAgent(outHeaders, ginHeaders) ==
    [n \in DOMAIN outHeaders \cup (DOMAIN ginHeaders \ {"X-Payment"}) |->
        IF n \in DOMAIN ginHeaders /\ n # "X-Payment" THEN ginHeaders[n]
        ELSE outHeaders[n]]

\* a proxy pass as a log entry
originCall(pass, headers, outcome) ==
    [op |-> "origin", pass |-> pass, headers |-> headers,
     status |-> outcome.status, transport |-> outcome.transport]

\* what the client receives when the proxy writes a pass's result through
relay(pass, outcome) ==
    IF outcome.transport THEN BadGateway ELSE OriginResponse(pass, outcome.status)

\* mutant of createPaymentPayload: a missing private key is not noticed
createPaymentPayloadNoKeyCheck(key, requirements, accountOk, payloadOk) ==
    IF findChainNetwork(requirements.Network) = << >>
    THEN [ok |-> FALSE, Scheme |-> "", Network |-> ""]
    ELSE [ok |-> TRUE, Scheme |-> requirements.Scheme, Network |-> requirements.Network]

\* createPaymentPayload of the "config" deployment; accountOk and payloadOk are
\* the results of the account and signing libraries
createPaymentPayload(key, requirements, accountOk, payloadOk) ==
    IF key = "" THEN [ok |-> FALSE, Scheme |-> "", Network |-> ""]
    ELSE IF findChainNetwork(requirements.Network) = << >>
    THEN [ok |-> FALSE, Scheme |-> "", Network |-> ""]
    ELSE IF ~accountOk \/ ~payloadOk THEN [ok |-> FALSE, Scheme |-> "", Network |-> ""]
    ELSE [ok |-> TRUE, Scheme |-> requirements.Scheme, Network |-> requirements.Network]

\* the end of a handler: log entries and client writes are appended
Finish(log, out) ==
    /\ events' = events \o log
    /\ resp' = resp \o out
    /\ pc' = "done"

\* ProxyRequest of the "file" deployment
ProxyRequestFile(resource) ==
    IF resource.TargetURL = "" \/ urlParseFails(resource.TargetURL)
    THEN Finish(<< >>, << ErrorResponse(500, "internal_error") >>)
    ELSE \E o \in OriginOutcomes :
            Finish(<< originCall(1, directorFile(req.headers), o) >>, << relay(1, o) >>)

\* mutant of X402BuyerInterceptor: the return after payment_creation_failed is lost and
\* the retry is sent although no payload was built
X402BuyerInterceptorNoReturn(first, o1) ==
    \E body \in OriginBodies :
        IF ~body.json
        THEN Finish(<< first, [op |-> "parse402", ok |-> FALSE] >>, << relay(1, o1) >>)
        ELSE \E accountOk \in BOOLEAN, payloadOk \in BOOLEAN, o2 \in OriginOutcomes :
            LET payload == createPaymentPayload(privKey, body, accountOk, payloadOk)
            IN  Finish(<< first, [op |-> "build", ok |-> payload.ok, network |-> body.Network],
                          [op |-> "marshal", ok |-> TRUE],
                          [op |-> "newrequest", ok |-> TRUE],
                          originCall(2,
                              directorAgent([n \in {"X-Payment"} |->
                                                MarshalPayment(payload)],
                                            req.headers), o2) >>,
                       IF payload.ok THEN << relay(2, o2) >>
                       ELSE << ErrorResponse(500, "payment_creation_failed"),
                               relay(2, o2) >>)

\* mutant of X402BuyerInterceptor: the retry pass is intercepted again, a second
\* 402 leads to another payment and another origin call
X402BuyerInterceptorRetryAgain(first, o1) ==
    \E body \in OriginBodies :
        IF ~body.json
        THEN Finish(<< first, [op |-> "parse402", ok |-> FALSE] >>, << relay(1, o1) >>)
        ELSE \E accountOk \in BOOLEAN, payloadOk \in BOOLEAN :
            LET payload == createPaymentPayload(privKey, body, accountOk, payloadOk)
            IN  IF ~payload.ok
                THEN Finish(<< first, [op |-> "build", ok |-> FALSE, network |-> body.Network] >>,
                            << ErrorResponse(500, "payment_creation_failed") >>)
                ELSE \E marshalOk \in BOOLEAN :
                    IF ~marshalOk
                    THEN Finish(<< first, [op |-> "build", ok |-> TRUE, network |-> body.Network],
                                   [op |-> "marshal", ok |-> FALSE] >>,
                                << ErrorResponse(500, "payment_serialization_failed") >>)
                    ELSE \E requestOk \in BOOLEAN :
                        IF ~requestOk
                        THEN Finish(<< first, [op |-> "build", ok |-> TRUE, network |-> body.Network],
                                       [op |-> "marshal", ok |-> TRUE],
                                       [op |-> "newrequest", ok |-> FALSE] >>,
                                    << ErrorResponse(500, "retry_request_failed") >>)
                        ELSE \E o2 \in OriginOutcomes, o3 \in OriginOutcomes :
                            LET retry(o) == originCall(2,
                                               directorAgent([n \in {"X-Payment"} |->
                                                                 MarshalPayment(payload)],
                                                             req.headers), o)
                                built == << [op |-> "build", ok |-> TRUE, network |-> body.Network],
                                            [op |-> "marshal", ok |-> TRUE],
                                            [op |-> "newrequest", ok |-> TRUE] >>
                            IN  IF o2.status = 402
                                THEN Finish(<< first >> \o built \o << retry(o2) >>
                                                \o built \o << retry(o3) >>,
                                            << relay(2, o3) >>)
                                ELSE Finish(<< first >> \o built \o << retry(o2) >>,
                                            << relay(2, o2) >>)

\* X402BuyerInterceptor on a captured 402; first is the log entry of the
\* captured first pass. ProxyRequest of the "config" deployment has the same
\* steps inline
X402BuyerInterceptor(first, o1) ==
    \E body \in OriginBodies :
        IF ~body.json
        THEN Finish(<< first, [op |-> "parse402", ok |-> FALSE] >>, << relay(1, o1) >>)
        ELSE \E accountOk \in BOOLEAN, payloadOk \in BOOLEAN :
            LET payload == createPaymentPayload(privKey, body, accountOk, payloadOk)
            IN  IF ~payload.ok
                THEN Finish(<< first, [op |-> "build", ok |-> FALSE, network |-> body.Network] >>,
                            << ErrorResponse(500, "payment_creation_failed") >>)
                ELSE \E marshalOk \in BOOLEAN :
                    IF ~marshalOk
                    THEN Finish(<< first, [op |-> "build", ok |-> TRUE, network |-> body.Network],
                                   [op |-> "marshal", ok |-> FALSE] >>,
                                << ErrorResponse(500, "payment_serialization_failed") >>)
                    ELSE \E requestOk \in BOOLEAN :
                        IF ~requestOk
                        THEN Finish(<< first, [op |-> "build", ok |-> TRUE, network |-> body.Network],
                                       [op |-> "marshal", ok |-> TRUE],
                                       [op |-> "newrequest", ok |-> FALSE] >>,
                                    << ErrorResponse(500, "retry_request_failed") >>)
                        ELSE \E o2 \in OriginOutcomes :
                            Finish(<< first, [op |-> "build", ok |-> TRUE, network |-> body.Network],
                                      [op |-> "marshal", ok |-> TRUE],
                                      [op |-> "newrequest", ok |-> TRUE],
                                      originCall(2,
                                          directorAgent([n \in {"X-Payment"} |->
                                                            MarshalPayment(payload)],
                                                        req.headers), o2) >>,
                                   << relay(2, o2) >>)

\* ProxyRequest of the "config" deployment: captured first pass, then automatic
\* payment and one retry when the captured status is 402
ProxyRequestConfig(resource) ==
    IF resource.TargetURL = "" \/ urlParseFails(resource.TargetURL)
    THEN Finish(<< >>, << ErrorResponse(500, "internal_error") >>)
    ELSE \E o1 \in OriginOutcomes :
            LET first == originCall(1, directorAgent(req.headers, req.headers), o1)
            IN  IF o1.status = 402
                THEN X402BuyerInterceptor(first, o1)
                ELSE Finish(<< first >>, << relay(1, o1) >>)

\* AgentReverseProxy.ServeHTTP with the given interceptor chain: served
\* directly without interceptors; otherwise captured, and an interceptor that
\* does not handle the response leaves it to be flushed
ServeHTTP(interceptors, first, o1) ==
    IF Len(interceptors) = 0 THEN Finish(<< first >>, << relay(1, o1) >>)
    ELSE IF o1.status # 402 THEN Finish(<< first >>, << relay(1, o1) >>)
    ELSE X402BuyerInterceptor(first, o1)

\* ProxyRequest of the "agent" deployment: the buyer interceptor is installed
\* on the proxy of a resource tagged x402-buyer
ProxyRequestAgent(resource) ==
    IF resource.TargetURL = "" \/ urlParseFails(resource.TargetURL)
    THEN Finish(<< >>, << ErrorResponse(500, "internal_error") >>)
    ELSE \E o1 \in OriginOutcomes :
            ServeHTTP(IF hasMiddleware(resource, "x402-buyer")
                      THEN << "X402BuyerInterceptor" >> ELSE << >>,
                      originCall(1, directorAgent(req.headers, req.headers), o1), o1)

\* HandleResourceRequest: 404 when no middleware stored a resource, else proxy
HandleResourceRequest ==
    /\ pc = "handler"
    /\ resources' = ReloadResourcesIfNeeded(variant, source, resources, modified)
    /\ modified' = FALSE
    /\ IF ctx.resource_config = << >>
       THEN Finish(<< >>, << ErrorResponse(404, "resource_not_found") >>)
       ELSE IF variant = "file"
       THEN ProxyRequestFile(ctx.resource_config[1])
       ELSE IF variant = "config"
       THEN ProxyRequestConfig(ctx.resource_config[1])
       ELSE ProxyRequestAgent(ctx.resource_config[1])
    /\ UNCHANGED <<mainProc, requestBody, interceptorsChain, realWriter, capture, configFile, authConfig, resourcesMutex, thr, snapshots, variant, source, privKey, req, ctx, found>>

\* the router: a request that matches a resource route enters the chain at the
\* auth middleware, any other gets gin's own 404
Dispatch ==
    /\ pc = "start"
    /\ IF RouteMatches(variant, resources, req.path)
       THEN /\ pc' = "auth"
            /\ resp' = resp
       ELSE /\ pc' = "done"
            /\ resp' = Append(resp, ErrorResponse(404, "no_route"))
    /\ UNCHANGED <<mainProc, requestBody, interceptorsChain, realWriter, capture, configFile, authConfig, resourcesMutex, thr, snapshots, variant, source, privKey, modified, resources, req, ctx, events, found>>

----------------------------------------------------------------------------
(* Initial values shared by the specifications *)

\* an endpoint of the configuration that only names a path and a target
PlainEndpoint(raw) ==
    [Endpoint |-> raw, Description |-> "", Type |-> "http",
     Middlewares |-> << >>, TargetURL |-> "http://origin/t"]

\* the context bag of a request before any middleware ran
EmptyCtx == [resource_config |-> << >>, auth_token |-> << >>, payment_payer |-> ""]

----------------------------------------------------------------------------
(* Pipeline specification: one request through the chain, for every bounded  *)
(* configuration and request                                                *)

\* the payment requirements of a resources.json entry
FileX402(path) ==
    [Scheme |-> "exact", Network |-> "net1", Resource |-> path, Description |-> "",
     MaxAmountRequired |-> "100", PayTo |-> "0xP", AssetType |-> "ERC20",
     Asset |-> "0xT", TokenName |-> "USDC", TokenVersion |-> "1"]

TargetURLs == {"", "::bad", "http://origin/t"}

AuthConfigs == { << >>, << [Type |-> "bearer", Token |-> << "tok" >>] >>,
                        << [Type |-> "basic",  Token |-> << "tok" >>] >> }

\* entries of resources.json for the path /api/x
FileEntries ==
    { [Resource |-> << "/", "api", "/", "x" >>, Type |-> "http", Middlewares |-> mws,
       Auth |-> a, X402 |-> x, TargetURL |-> t] :
        mws \in { << >>, << "auth" >>, << "x402" >>, << "auth", "x402" >>, << "x402-seller" >> },
        a \in AuthConfigs,
        x \in { << >>, << FileX402(<< "/", "api", "/", "x" >>) >> },
        t \in TargetURLs }

\* a resources.json entry without middlewares for the path /api
PlainFileEntry ==
    [Resource |-> << "/", "api" >>, Type |-> "http", Middlewares |-> << >>,
     Auth |-> << >>, X402 |-> << >>, TargetURL |-> "http://origin/t"]

AuthMw(type) == [key |-> "auth", cfg |-> << [type |-> type, token |-> << "tok" >>] >>]

SellerMw(network, payto) ==
    [key |-> "x402-seller",
     cfg |-> << [network |-> network, payto |-> payto, maxamountrequired |-> "100"] >>]

\* the middlewares lists of cfg endpoints
EndpointMiddlewares ==
    { << >>, << AuthMw("bearer") >>, << AuthMw("basic") >>,
      << [key |-> "auth", cfg |-> << >>] >>,
      << SellerMw("net1", "0xP") >>, << SellerMw("netX", "0xP") >>,
      << SellerMw("net1", "") >>,
      << AuthMw("bearer"), SellerMw("net1", "0xP") >>,
      << [key |-> "x402-buyer", cfg |-> << >>] >> }

\* cfg endpoints for the path /api/x (written with a trailing slash)
ConfigEndpoints ==
    { [Endpoint |-> << "/", "api", "/", "x", "/" >>, Description |-> "", Type |-> "http",
       Middlewares |-> mws, TargetURL |-> t] :
        mws \in EndpointMiddlewares, t \in TargetURLs }

PlainConfigEndpoint == PlainEndpoint(<< "/", "api" >>)

AuthHeaders ==
    { << >>, << "Bearer", " ", "tok" >>, << "Bearer", " ", "bad" >>, << "tok" >>,
      << "Basic", " ", "tok" >>, << "Bearer", " ", "tok", " ", "x" >>, << "Bearer", " " >> }

PaymentHeaders ==
    { << >>, << "garbage" >>, << "{", "exact", "net1", "}" >>, << "{", "exact", "netX", "}" >> }

PipelinePaths ==
    { << "/", "api", "/", "x" >>, << "/", "api", "/", "x", "/", "y" >>,
      << "/", "api", "/", "x", "y" >>, << "/", "api", "/", "z" >>, << "/", "other" >> }

\* the headers of a request: Accept always, Authorization and X-Payment if sent
RequestHeaders(a, x) ==
    [n \in {"Accept"} \cup (IF a = << >> THEN {} ELSE {"Authorization"})
                      \cup (IF x = << >> THEN {} ELSE {"X-Payment"}) |->
        IF n = "Accept" THEN << "json" >> ELSE IF n = "Authorization" THEN a ELSE x]

Init ==
    /\ authConfig = NoAdminAuth
    /\ variant \in {"file", "config", "agent"}
    /\ IF variant = "file"
       THEN /\ \/ source = << >>
               \/ \E e \in FileEntries : source \in { << e >>, << PlainFileEntry, e >> }
            /\ privKey = ""
       ELSE /\ \/ source = << >>
               \/ \E e \in ConfigEndpoints : source \in { << e >>, << PlainConfigEndpoint, e >> }
            /\ privKey \in {"", "0xKEY"}
    /\ modified = FALSE
    /\ resources = loadResources(variant, source)
    /\ \E p \in PipelinePaths, a \in AuthHeaders, x \in PaymentHeaders :
         req = [path |-> p, headers |-> RequestHeaders(a, x)]
    /\ pc = "start"
    /\ ctx = EmptyCtx
    /\ resp = << >>
    /\ events = << >>
    /\ found = << >>
    /\ resourcesMutex = FreeMutex
    /\ thr = [t \in Threads |-> IdleThread]
    /\ snapshots = {resources}
    /\ configFile = IF variant = "file" THEN << >> ELSE source
    /\ capture = NewResponseCapture
    /\ realWriter = NewWriter
    /\ interceptorsChain = << >>
    /\ requestBody = [unread |-> << >>, closed |-> FALSE]
    /\ mainProc = NotStarted

Next ==
    \/ Dispatch
    \/ ResourceAuthMiddleware
    \/ ResourcePayMiddleware
    \/ HandleResourceRequest

Spec == Init /\ [][Next]_vars

----------------------------------------------------------------------------
(* Lookup specification: FindResource over registries loaded from bounded   *)
(* endpoint lists, for every bounded request path                           *)

\* the raw endpoint paths a configuration can name
RawPaths == SeqsUpTo(PathChars, MaxPathLen)

\* request URL paths: non-empty, starting with a slash
RequestPaths == {p \in SeqsUpTo(PathChars, MaxReqLen) : Len(p) >= 1 /\ p[1] = "/"}

InitLookup ==
    /\ authConfig = NoAdminAuth
    /\ variant = "config"
    /\ \E n \in 0..MaxEndpoints :
         \E raws \in [1..n -> RawPaths] :
            source = [i \in 1..n |-> PlainEndpoint(raws[i])]
    /\ privKey = ""
    /\ modified = FALSE
    /\ resources = loadResources(variant, source)
    /\ \E p \in RequestPaths : req = [path |-> p, headers |-> << >>]
    /\ pc = "lookup"
    /\ ctx = EmptyCtx
    /\ resp = << >>
    /\ events = << >>
    /\ found = << >>
    /\ resourcesMutex = FreeMutex
    /\ thr = [t \in Threads |-> IdleThread]
    /\ snapshots = {resources}
    /\ configFile = IF variant = "file" THEN << >> ELSE source
    /\ capture = NewResponseCapture
    /\ realWriter = NewWriter
    /\ interceptorsChain = << >>
    /\ requestBody = [unread |-> << >>, closed |-> FALSE]
    /\ mainProc = NotStarted

\* a request thread calls FindResource(path); the map is iterated in some order
Lookup ==
    /\ pc = "lookup"
    /\ \E order \in KeyOrders(resources) :
         found' = FindResourceIn(resources, order, req.path)
    /\ pc' = "looked"
    /\ UNCHANGED <<mainProc, requestBody, interceptorsChain, realWriter, capture, configFile, authConfig, resourcesMutex, thr, snapshots, variant, source, privKey, modified, resources, req, ctx, resp, events>>

NextLookup == Lookup

SpecLookup == InitLookup /\ [][NextLookup]_vars

\* C10: a returned policy is the exact match of the normalised request path or
\* the longest entry that is a prefix of the request path, and no policy is
\* returned only when no entry matches exactly or as a prefix
C10_LongestPrefix ==
    pc = "looked" =>
        /\ found # << >> =>
             /\ found[1].Resource \in DOMAIN resources
             /\ resources[found[1].Resource] = found[1]
             /\ \/ found[1].Resource = NormalizePath(req.path)
                \/ /\ HasPrefix(req.path, found[1].Resource)
                   /\ \A k \in DOMAIN resources :
                        HasPrefix(req.path, k) => Len(k) <= Len(found[1].Resource)
        /\ found = << >> =>
             /\ req.path \notin DOMAIN resources
             /\ NormalizePath(req.path) \notin DOMAIN resources
             /\ \A k \in DOMAIN resources : ~HasPrefix(req.path, k)

\* C10 witness: a lookup answered by the prefix loop although a shorter entry
\* is a prefix of the path too
C10_Witness ==
    /\ pc = "looked"
    /\ found # << >>
    /\ found[1].Resource # NormalizePath(req.path)
    /\ \E k \in DOMAIN resources :
         HasPrefix(req.path, k) /\ Len(k) < Len(found[1].Resource)

----------------------------------------------------------------------------
(* Properties of the request pipeline (checked under Spec) *)

\* positions of the log entries of one kind
EventsOf(op) == {i \in 1..Len(events) : events[i].op = op}

\* the proxy passes to the origin
OriginCalls == EventsOf("origin")

\* the auth stage ran and did not reject the request
PassedAuth ==
    \E i \in EventsOf("auth") : events[i].result \notin AuthRejections

\* the payment stage ran to its end
PayStageRan == EventsOf("pay") # {}

\* the resource carries the seller payment middleware ("x402" in resources.json,
\* "x402-seller" in cfg endpoints)
IsSeller(resource) ==
    hasMiddleware(resource, "x402") \/ hasMiddleware(resource, "x402-seller")

\* the resource the payment stage resolved is a seller resource
SellerRequest ==
    /\ PayStageRan
    /\ ctx.resource_config # << >>
    /\ IsSeller(ctx.resource_config[1])

\* verify answered valid and settle answered success, both before position i
PaidBefore(i) ==
    \E v \in EventsOf("verify"), t \in EventsOf("settle") :
        /\ v < t /\ t < i
        /\ events[v].result = "valid"
        /\ events[t].result = "success"

\* C1: for a request that passed auth on a seller resource nothing is
\* forwarded to the origin unless verify answered valid and settle answered
\* success before it
C1_SellerGate ==
    SellerRequest => \A i \in OriginCalls : PaidBefore(i)

\* C2: the request of the first proxy pass carries no X-Payment header and
\* carries every other header the caller sent, unchanged
C2_FirstPassHeaders ==
    \A i \in OriginCalls :
        events[i].pass = 1 =>
            /\ "X-Payment" \notin DOMAIN events[i].headers
            /\ \A n \in DOMAIN req.headers \ {"X-Payment"} :
                 n \in DOMAIN events[i].headers /\ events[i].headers[n] = req.headers[n]

\* the automatic payment was constructed: payload built, serialised and put on
\* a retry request
PaymentConstructed ==
    /\ \E i \in EventsOf("build") : events[i].ok
    /\ \E i \in EventsOf("marshal") : events[i].ok
    /\ \E i \in EventsOf("newrequest") : events[i].ok

\* the first proxy pass was answered with status 402
First402 == \E i \in OriginCalls : events[i].pass = 1 /\ events[i].status = 402

C4_StageOrder ==
    /\ (\E a \in EventsOf("auth") : events[a].result \in AuthRejections) =>
          /\ EventsOf("verify") \cup EventsOf("settle") = {}
          /\ EventsOf("pay") = {}
          /\ OriginCalls = {}
    /\ \A i \in EventsOf("verify") \cup EventsOf("settle") :
          /\ \E a \in EventsOf("auth") : a < i
          /\ \A o \in OriginCalls : i < o
    /\ \A p \in EventsOf("pay") : \E a \in EventsOf("auth") : a < p
    /\ \A o \in OriginCalls : \E p \in EventsOf("pay") : p < o
    /\ \A o \in OriginCalls :
          events[o].pass = 2 => \E f \in OriginCalls : f < o /\ events[f].pass = 1

\* C4 witness: a request that passed a real token check, paid, and was proxied
C4_Witness ==
    /\ pc = "done"
    /\ \E a \in EventsOf("auth") : events[a].result = "pass"
    /\ PaidBefore(Len(events) + 1)
    /\ OriginCalls # {}

\* C5: a seller resource answers a request without X-Payment with the 402
\* challenge carrying its payment requirements and X-Payment-Required, and
\* calls neither the facilitator nor the origin
C5_Challenge ==
    (pc = "done" /\ SellerRequest /\ GetHeader(req.headers, "X-Payment") = << >>) =>
        /\ Len(resp) = 1
        /\ resp[1].status = 402
        /\ resp[1].error = "payment_required"
        /\ resp[1].payReqHeader
        /\ resp[1].paymentRequirements = ctx.resource_config[1].X402
        /\ resp[1].paymentRequirements # << >>
        /\ EventsOf("verify") \cup EventsOf("settle") = {}
        /\ OriginCalls = {}

\* the auth stage resolved a resource with auth in its middlewares and an auth
\* configuration
AuthProtected ==
    /\ EventsOf("auth") # {}
    /\ ctx.resource_config # << >>
    /\ hasMiddleware(ctx.resource_config[1], "auth")
    /\ ctx.resource_config[1].Auth # << >>

\* C6: on an auth-protected resource a request gets past the auth stage only
\* with the header Authorization: Bearer <configured token>
C6_BearerRequired ==
    (AuthProtected /\ PassedAuth) =>
        GetHeader(req.headers, "Authorization")
            = << "Bearer", " " >> \o ctx.resource_config[1].Auth[1].Token

\* C7: on an auth-protected resource the Authorization header decides the
\* outcome of the auth stage: absent -> 401 missing_authorization, not
\* "Bearer <x>" -> 401 invalid_authorization_format, other token -> 401
\* invalid_token, each ending the request; otherwise the token is stored
C7_AuthOutcome ==
    (AuthProtected /\ pc # "auth") =>
        LET h == GetHeader(req.headers, "Authorization")
            parts == SplitSpace(h)
            kind == IF h = << >> THEN "missing_authorization"
                    ELSE IF Len(parts) # 2 \/ parts[1] # << "Bearer" >>
                    THEN "invalid_authorization_format"
                    ELSE IF parts[2] # ctx.resource_config[1].Auth[1].Token
                    THEN "invalid_token"
                    ELSE "pass"
        IN  IF kind = "pass"
            THEN ctx.auth_token = parts[2] /\ PassedAuth
            ELSE /\ pc = "done"
                 /\ resp = << ErrorResponse(401, kind) >>
                 /\ OriginCalls = {}

\* the presented payment fails: X-Payment is not JSON, scheme or network
\* differ from the requirements, or the facilitator refuses or errs
PaymentFails ==
    LET h == GetHeader(req.headers, "X-Payment")
        x == ctx.resource_config[1].X402
    IN  /\ h # << >>
        /\ \/ ~UnmarshalPayment(h).ok
           \/ x # << >> /\ (UnmarshalPayment(h).Scheme # x[1].Scheme
                            \/ UnmarshalPayment(h).Network # x[1].Network)
           \/ \E i \in EventsOf("verify") : events[i].result # "valid"
           \/ \E i \in EventsOf("settle") : events[i].result # "success"

\* C8: on a seller resource every payment failure ends the request with
\* 402 payment_failed and no origin contact
C8_PaymentFailed ==
    (pc = "done" /\ SellerRequest /\ PaymentFails) =>
        /\ resp = << ErrorResponse(402, "payment_failed") >>
        /\ OriginCalls = {}

\* no registry entry governs the request path, exactly or as a prefix
NoEntryMatches ==
    /\ TrimSuffixSlash(req.path) \notin DOMAIN resources
    /\ \A k \in DOMAIN resources : ~HasPrefix(req.path, k)

\* C9: a routed request whose path no registry entry matches ends with
\* 404 resource_not_found; neither stage checks anything, the facilitator and
\* the origin are not called
C9_NotFound ==
    (pc = "done" /\ EventsOf("auth") # {} /\ NoEntryMatches) =>
        /\ resp = << ErrorResponse(404, "resource_not_found") >>
        /\ events = << [op |-> "auth", result |-> "notfound"],
                       [op |-> "pay", result |-> "notfound"] >>
        /\ ctx = EmptyCtx

\* C9 witness: a routed request that found no resource and was answered 404
C9_Witness ==
    /\ pc = "done"
    /\ EventsOf("auth") # {}
    /\ NoEntryMatches
    /\ resp = << ErrorResponse(404, "resource_not_found") >>

\* C11: a policy returned for a path it does not equal is a prefix of the path
\* that ends at a segment boundary: it is the root, or the next character of
\* the path is a slash
C11_SegmentBoundary ==
    (pc = "looked" /\ found # << >> /\ found[1].Resource # req.path) =>
        \/ found[1].Resource = << "/" >>
        \/ /\ HasPrefix(req.path, found[1].Resource)
           /\ Len(req.path) > Len(found[1].Resource)
           /\ req.path[Len(found[1].Resource) + 1] = "/"

\* C12: the normalisation applied when the registry is loaded is idempotent:
\* every endpoint path is stored under norm(p), norm(norm(p)) = norm(p), and
\* norm("/") = "/", norm("/a/") = "/a", norm("a") = "/a", norm("/a") = "/a"
C12_NormIdempotent ==
    /\ \A i \in 1..Len(source) :
         LET p == NormalizePath(source[i].Endpoint)
         IN  /\ p \in DOMAIN resources
             /\ NormalizePath(p) = p
    /\ NormalizePath(<< "/" >>) = << "/" >>
    /\ NormalizePath(<< "/", "a", "/" >>) = << "/", "a" >>
    /\ NormalizePath(<< "a" >>) = << "/", "a" >>
    /\ NormalizePath(<< "/", "a" >>) = << "/", "a" >>

----------------------------------------------------------------------------
(* Concurrent reloads and reads of the registry *)

\* mutant of canLock: the write lock is granted whoever holds the mutex
canLockAlways(m) == TRUE

\* resourcesMutex.Lock() returns when nobody holds the mutex
canLock(m) == m.writer = 0 /\ m.readers = {}

\* resourcesMutex.RLock() returns when nobody holds the write lock
canRLock(m) == m.writer = 0

\* the read operations of the gateway; each takes the read lock
ReadOps == {"FindResource", "GetAllResources", "DiscoverResources"}

\* one entry of the source as loadResources stores it
convertEntry(v, entry) ==
    IF v = "config" THEN convertEndpointToResource(entry)
    ELSE IF v = "agent" THEN convertEndpointToResourceAgent(entry)
    ELSE entry

\* a request arrives: its middleware, handler or discovery call will reload
\* and then read
Begin(t) ==
    /\ thr[t].pc = "idle"
    /\ thr' = [thr EXCEPT ![t].pc = "check"]
    /\ UNCHANGED <<mainProc, requestBody, interceptorsChain, realWriter, capture, configFile, authConfig, variant, source, privKey, modified, resources, req, pc, ctx, resp,
                   events, found, resourcesMutex, snapshots>>

\* ReloadResourcesIfNeeded: the "file" deployment stats resources.json and
\* compares its mtime with lastLoadTime, read without the mutex (while a load
\* is writing lastLoadTime the comparison can go either way); the other
\* deployments always load
ReloadCheck(t) ==
    /\ thr[t].pc = "check"
    /\ IF variant # "file"
       THEN thr' = [thr EXCEPT ![t].pc = "lock", ![t].data = source]
       ELSE \E exists \in BOOLEAN,
               newer \in (IF \E u \in Threads : thr[u].pc = "store" /\ thr[u].i > Len(thr[u].data)
                          THEN BOOLEAN ELSE {modified}) :
               thr' = [thr EXCEPT ![t].pc = IF exists /\ newer THEN "readfile" ELSE "rlock"]
    /\ UNCHANGED <<mainProc, requestBody, interceptorsChain, realWriter, capture, configFile, authConfig, variant, source, privKey, modified, resources, req, pc, ctx, resp,
                   events, found, resourcesMutex, snapshots>>

\* loadResources of the "file" deployment up to the lock: stat, read, parse
ReadFile(t) ==
    /\ thr[t].pc = "readfile"
    /\ \E outcome \in {"missing", "unreadable", "badjson", "ok"} :
         thr' = [thr EXCEPT
                   ![t].pc = IF outcome = "ok" THEN "lock" ELSE "rlock",
                   ![t].data = IF outcome = "ok" THEN source ELSE @,
                   ![t].err = outcome \in {"unreadable", "badjson"}]
    /\ UNCHANGED <<mainProc, requestBody, interceptorsChain, realWriter, capture, configFile, authConfig, variant, source, privKey, modified, resources, req, pc, ctx, resp,
                   events, found, resourcesMutex, snapshots>>

\* loadResources: g.resourcesMutex.Lock()
LoadLock(t) ==
    /\ thr[t].pc = "lock"
    /\ canLock(resourcesMutex)
    /\ resourcesMutex' = [resourcesMutex EXCEPT !.writer = t]
    /\ thr' = [thr EXCEPT ![t].pc = "reset", ![t].before = resources]
    /\ UNCHANGED <<mainProc, requestBody, interceptorsChain, realWriter, capture, configFile, authConfig, variant, source, privKey, modified, resources, req, pc, ctx, resp,
                   events, found, snapshots>>

\* mutant of LoadReset: the load stores into the map that is already there
LoadResetKeep(t) ==
    /\ thr[t].pc = "reset"
    /\ resources' = resources
    /\ thr' = [thr EXCEPT ![t].pc = "store", ![t].i = 1]
    /\ UNCHANGED <<mainProc, requestBody, interceptorsChain, realWriter, capture, configFile, authConfig, variant, source, privKey, modified, req, pc, ctx, resp,
                   events, found, resourcesMutex, snapshots>>

\* loadResources: g.resources = make(map[string]*ResourceConfig)
LoadReset(t) ==
    /\ thr[t].pc = "reset"
    /\ resources' = << >>
    /\ thr' = [thr EXCEPT ![t].pc = "store", ![t].i = 1]
    /\ UNCHANGED <<mainProc, requestBody, interceptorsChain, realWriter, capture, configFile, authConfig, variant, source, privKey, modified, req, pc, ctx, resp,
                   events, found, resourcesMutex, snapshots>>

\* loadResources: one iteration of the loop over the entries
LoadStore(t) ==
    /\ thr[t].pc = "store"
    /\ thr[t].i <= Len(thr[t].data)
    /\ resources' = storeResource(resources, convertEntry(variant, thr[t].data[thr[t].i]))
    /\ thr' = [thr EXCEPT ![t].i = @ + 1]
    /\ UNCHANGED <<mainProc, requestBody, interceptorsChain, realWriter, capture, configFile, authConfig, variant, source, privKey, modified, req, pc, ctx, resp,
                   events, found, resourcesMutex, snapshots>>

\* loadResources: lastLoadTime = time.Now(), return nil, deferred Unlock
LoadFinish(t) ==
    /\ thr[t].pc = "store"
    /\ thr[t].i > Len(thr[t].data)
    /\ modified' = FALSE
    /\ snapshots' = snapshots \cup {resources}
    /\ resourcesMutex' = [resourcesMutex EXCEPT !.writer = 0]
    /\ thr' = [thr EXCEPT ![t].pc = "rlock", ![t].ran = TRUE, ![t].err = FALSE,
                          ![t].after = resources]
    /\ UNCHANGED <<mainProc, requestBody, interceptorsChain, realWriter, capture, configFile, authConfig, variant, source, privKey, resources, req, pc, ctx, resp,
                   events, found>>

\* ReloadResourcesIfNeeded has returned (its error is only logged); the
\* caller's read operation begins: g.resourcesMutex.RLock()
ReadLock(t) ==
    /\ thr[t].pc = "rlock"
    /\ canRLock(resourcesMutex)
    /\ resourcesMutex' = [resourcesMutex EXCEPT !.readers = @ \cup {t}]
    /\ \E op \in ReadOps :
         thr' = [thr EXCEPT ![t] = [IdleThread EXCEPT !.pc = "read1", !.op = op]]
    /\ UNCHANGED <<mainProc, requestBody, interceptorsChain, realWriter, capture, configFile, authConfig, variant, source, privKey, modified, resources, req, pc, ctx, resp,
                   events, found, snapshots>>

\* the read operation: first access to g.resources (the exact-match index of
\* FindResource, the start of the range of the others)
Read1(t) ==
    /\ thr[t].pc = "read1"
    /\ thr' = [thr EXCEPT ![t].pc = "read2", ![t].seen = << resources >>]
    /\ UNCHANGED <<mainProc, requestBody, interceptorsChain, realWriter, capture, configFile, authConfig, variant, source, privKey, modified, resources, req, pc, ctx, resp,
                   events, found, resourcesMutex, snapshots>>

\* the read operation: later access to g.resources (the range), then the
\* deferred RUnlock
Read2(t) ==
    /\ thr[t].pc = "read2"
    /\ thr' = [thr EXCEPT ![t] = IdleThread]
    /\ resourcesMutex' = [resourcesMutex EXCEPT !.readers = @ \ {t}]
    /\ UNCHANGED <<mainProc, requestBody, interceptorsChain, realWriter, capture, configFile, authConfig, variant, source, privKey, modified, resources, req, pc, ctx, resp,
                   events, found, snapshots>>

\* the middlewares lists of the endpoints that are reloaded
ReloadEndpointMiddlewares ==
    { << >>, << SellerMw("net1", "0xP") >>, << SellerMw("netX", "0xP") >>,
      << [key |-> "x402-buyer", cfg |-> << >>] >> }

\* cfg.Resources of the "config" and "agent" deployments
ReloadConfigSources ==
    { << >> } \cup
    { << PlainConfigEndpoint, e >> :
        e \in {c \in ConfigEndpoints : /\ c.Middlewares \in ReloadEndpointMiddlewares
                                      /\ c.TargetURL \in {"", "http://origin/t"}} }

\* contents of resources.json
ReloadFileSources ==
    { << >>, << PlainFileEntry >> } \cup
    { << PlainFileEntry, e >> :
        e \in {f \in FileEntries :
                 /\ f.Auth = << >>
                 /\ \/ /\ f.Middlewares = << "x402" >>
                       /\ f.X402 # << >>
                       /\ f.TargetURL = "http://origin/t"
                    \/ /\ f.Middlewares = << "x402-seller" >>
                       /\ f.X402 = << >>
                       /\ f.TargetURL = ""} }

\* resources.json is rewritten; its mtime is now after lastLoadTime
EditFile ==
    /\ variant = "file"
    /\ \E s \in ReloadFileSources \ {source} : source' = s
    /\ modified' = TRUE
    /\ UNCHANGED <<mainProc, requestBody, interceptorsChain, realWriter, capture, configFile, authConfig, variant, privKey, resources, req, pc, ctx, resp, events, found,
                   resourcesMutex, thr, snapshots>>

InitReload ==
    /\ authConfig = NoAdminAuth
    /\ variant \in {"file", "config", "agent"}
    /\ source \in (IF variant = "file" THEN ReloadFileSources ELSE ReloadConfigSources)
    /\ privKey = ""
    /\ modified = FALSE
    /\ resources = loadResources(variant, source)
    /\ req = [path |-> << "/" >>, headers |-> << >>]
    /\ pc = "serving"
    /\ ctx = EmptyCtx
    /\ resp = << >>
    /\ events = << >>
    /\ found = << >>
    /\ resourcesMutex = FreeMutex
    /\ thr = [t \in Threads |-> IdleThread]
    /\ snapshots = {resources}
    /\ configFile = IF variant = "file" THEN << >> ELSE source
    /\ capture = NewResponseCapture
    /\ realWriter = NewWriter
    /\ interceptorsChain = << >>
    /\ requestBody = [unread |-> << >>, closed |-> FALSE]
    /\ mainProc = NotStarted

NextReload ==
    \/ EditFile
    \/ \E t \in Threads :
         \/ Begin(t)
         \/ ReloadCheck(t)
         \/ ReadFile(t)
         \/ LoadLock(t)
         \/ LoadReset(t)
         \/ LoadStore(t)
         \/ LoadFinish(t)
         \/ ReadLock(t)
         \/ Read1(t)
         \/ Read2(t)

SpecReload == InitReload /\ [][NextReload]_vars

\* C13: whatever the interleaving of loads and reads, every access of a read
\* operation to the map finds a map published by a completed load, and the
\* later access finds the map the first access saw
C13_SnapshotReads ==
    \A t \in Threads :
        /\ thr[t].pc = "read1" => resources \in snapshots
        /\ thr[t].pc = "read2" => thr[t].seen = << resources >> /\ resources \in snapshots

\* C13 witness: a goroutine is inside a read while another waits to rebuild the
\* map, after loads have published two different maps
C13_Witness ==
    /\ Cardinality(snapshots) >= 2
    /\ \E t, u \in Threads :
         /\ thr[t].pc = "read2"
         /\ thr[u].pc = "lock"
         /\ thr[u].data # << >>
         /\ loadResources(variant, thr[u].data) # resources

\* an entry of the source that is invalid: no target, or a seller middleware
\* that names a network missing from the chain networks
InvalidEntry(v, entry) ==
    \/ entry.TargetURL = ""
    \/ /\ v # "file"
       /\ \E i \in 1..Len(entry.Middlewares) :
            /\ entry.Middlewares[i].key = "x402-seller"
            /\ entry.Middlewares[i].cfg # << >>
            /\ findChainNetwork(entry.Middlewares[i].cfg[1].network) = << >>

\* C14: a reload whose source holds an invalid entry returns an error and
\* leaves the map that was active before it
C14_ReloadFailsWhole ==
    \A t \in Threads :
        (thr[t].pc = "rlock"
         /\ \E i \in 1..Len(thr[t].data) : InvalidEntry(variant, thr[t].data[i])) =>
            /\ thr[t].err
            /\ thr[t].after = thr[t].before

\* C15: after every reload each entry tagged x402-seller has payment
\* requirements whose scheme is a supported scheme and whose network is a
\* configured chain network
C15_SellerHasRequirements ==
    resourcesMutex.writer = 0 =>
        \A k \in DOMAIN resources :
            hasMiddleware(resources[k], "x402-seller") =>
                /\ resources[k].X402 # << >>
                /\ \E i \in 1..Len(SupportedSchemes) :
                     resources[k].X402[1].Scheme = SupportedSchemes[i]
                /\ findChainNetwork(resources[k].X402[1].Network) # << >>

\* C16: the retry pass is the last thing that happens to a request: it happens
\* at most once, after exactly one payment construction, and the caller gets
\* the retry's answer as the proxy wrote it, a second 402 included
C16_RetryOnce ==
    \A i \in OriginCalls :
        events[i].pass = 2 =>
            /\ i = Len(events)
            /\ Cardinality(OriginCalls) = 2
            /\ Cardinality(EventsOf("build")) = 1
            /\ pc = "done"
            /\ resp = << IF events[i].transport THEN BadGateway
                         ELSE OriginResponse(2, events[i].status) >>

\* C16 witness: the origin answered the retry with a second 402
C16_Witness ==
    /\ variant = "agent"
    /\ pc = "done"
    /\ \E i \in OriginCalls : events[i].pass = 2 /\ events[i].status = 402
    /\ Len(resp) = 1 /\ resp[1].status = 402 /\ resp[1].origin = 2


----------------------------------------------------------------------------
(* C17: payment construction fails after a first 402 *)

\* the payment constructions that could not succeed: the private key is
\* missing or the network of the challenge is not a configured chain network
DoomedBuilds ==
    {i \in EventsOf("build") :
        privKey = "" \/ findChainNetwork(events[i].network) = << >>}

\* C17: when the first origin response is 402 and the payment cannot be
\* constructed (no private key, or the challenge names a network that is not
\* configured, or any other construction failure), the caller receives exactly
\* one response, 500 payment_creation_failed, the captured 402 is not sent and
\* the origin has been called exactly once
C17_CreationFailed ==
    /\ \A i \in DoomedBuilds : ~events[i].ok
    /\ (\E i \in EventsOf("build") : ~events[i].ok) =>
            /\ First402
            /\ pc = "done"
            /\ resp = << ErrorResponse(500, "payment_creation_failed") >>
            /\ Cardinality(OriginCalls) = 1
            /\ EventsOf("marshal") = {}

\* C17 witness: a buyer-mode resource of the "agent" deployment answered 402,
\* no private key is configured, and the caller got the 500
C17_Witness ==
    /\ variant = "agent"
    /\ privKey = ""
    /\ First402
    /\ DoomedBuilds # {}
    /\ resp = << ErrorResponse(500, "payment_creation_failed") >>


----------------------------------------------------------------------------
(* C18: automatic payment is for buyer-mode resources only *)

\* the resource the request resolved to was not configured with x402-buyer
NotBuyerMode ==
    /\ ctx.resource_config # << >>
    /\ IF variant = "file"
       THEN ~hasMiddleware(ctx.resource_config[1], "x402-buyer")
       ELSE \A i \in 1..Len(source) :
                NormalizePath(source[i].Endpoint) = ctx.resource_config[1].Resource =>
                    \A j \in 1..Len(source[i].Middlewares) :
                        source[i].Middlewares[j].key # "x402-buyer"

\* C18: for a resource without x402-buyer an origin 402 is returned to the
\* caller as the origin sent it, no payment payload is built or signed, and the
\* origin is called exactly once
C18_BuyerOnly ==
    (NotBuyerMode /\ pc = "done" /\ First402) =>
        /\ EventsOf("build") = {}
        /\ Cardinality(OriginCalls) = 1
        /\ resp = << OriginResponse(1, 402) >>


----------------------------------------------------------------------------
(* Discovery: the ungated listing route, its query parsing and paging *)

MaxNumLen == 3

\* the characters of the limit and offset query values
NumChars == {"-", "+", "0", "1", "x"}

IsDigit(c) == c \in {"0", "1", "2", "3", "4", "5", "6", "7", "8", "9"}

DigitValue(c) ==
    CASE c = "0" -> 0 [] c = "1" -> 1 [] c = "2" -> 2 [] c = "3" -> 3 [] c = "4" -> 4
      [] c = "5" -> 5 [] c = "6" -> 6 [] c = "7" -> 7 [] c = "8" -> 8 [] c = "9" -> 9

\* the value of a string of decimal digits
RECURSIVE DecimalValue(_)
DecimalValue(d) ==
    IF d = << >> THEN 0
    ELSE DecimalValue(SubSeq(d, 1, Len(d) - 1)) * 10 + DigitValue(d[Len(d)])

\* strconv.Atoi: an optional sign, then one or more digits and nothing else.
\* The range error of longer digit strings is beyond MaxNumLen
Atoi(s) ==
    LET digits == IF s # << >> /\ s[1] \in {"+", "-"} THEN Tail(s) ELSE s
    IN  IF digits = << >> \/ \E i \in 1..Len(digits) : ~IsDigit(digits[i])
        THEN [ok |-> FALSE, value |-> 0]
        ELSE [ok |-> TRUE,
              value |-> IF s[1] = "-" THEN 0 - DecimalValue(digits) ELSE DecimalValue(digits)]

\* gin Context.Query: "" when the key is absent
Query(query, key) == IF key \in DOMAIN query THEN query[key] ELSE ""

\* gin Context.DefaultQuery: the default only when the key is absent
DefaultQuery(query, key, defaultValue) ==
    IF key \in DOMAIN query THEN query[key] ELSE defaultValue

\* mutant of parseLimit: the upper bound of the limit is not tested
parseLimitNoUpperBound(query) ==
    LET limit == Atoi(DefaultQuery(query, "limit", << "2", "0" >>))
    IN  IF ~limit.ok \/ limit.value < 1 THEN 20 ELSE limit.value

\* HandleDiscoverResources, the limit parameter
parseLimit(query) ==
    LET limit == Atoi(DefaultQuery(query, "limit", << "2", "0" >>))
    IN  IF ~limit.ok \/ limit.value < 1 \/ limit.value > 100 THEN 20 ELSE limit.value

\* HandleDiscoverResources, the offset parameter
parseOffset(query) ==
    LET offset == Atoi(DefaultQuery(query, "offset", << "0" >>))
    IN  IF ~offset.ok \/ offset.value < 0 THEN 0 ELSE offset.value

\* the items loop of DiscoverResources over the map in the iteration order
\* order: entries of another type are skipped when a type is asked for
RECURSIVE discoveryItems(_, _, _, _)
discoveryItems(m, order, resourceType, i) ==
    IF i > Len(order) THEN << >>
    ELSE LET resource == m[order[i]]
         IN  (IF resourceType # "" /\ resource.Type # resourceType THEN << >>
              ELSE << [Resource |-> resource.Resource, Type |-> resource.Type,
                       Accepts |-> resource.X402] >>)
             \o discoveryItems(m, order, resourceType, i + 1)

\* mutant of paginate: the window takes one item more than limit
paginateInclusive(items, limit, offset) ==
    LET start == IF offset > Len(items) THEN Len(items) ELSE offset
        end == IF start + limit + 1 > Len(items) THEN Len(items) ELSE start + limit + 1
    IN  IF start < Len(items) THEN SubSeq(items, start + 1, end) ELSE << >>

\* the pagination of DiscoverResources
paginate(items, limit, offset) ==
    LET start == IF offset > Len(items) THEN Len(items) ELSE offset
        end == IF start + limit > Len(items) THEN Len(items) ELSE start + limit
    IN  IF start < Len(items) THEN SubSeq(items, start + 1, end) ELSE << >>

\* DiscoverResources on the registry m, iterated in the order order
DiscoverResources(m, order, resourceType, limit, offset) ==
    [status |-> 200, x402Version |-> 1,
     items |-> paginate(discoveryItems(m, order, resourceType, 1), limit, offset)]

\* the path RegisterRoutes gives the discovery handler: /discover/resources,
\* and /resources/discover in the resources.json deployment
DiscoverRoute(v) ==
    IF v = "file" THEN << "/", "resources", "/", "discover" >>
    ELSE << "/", "discover", "/", "resources" >>

\* mutant of DispatchDiscover: the discovery route is registered inside the
\* resource group and runs the resource auth middleware first
DispatchDiscoverGated ==
    /\ pc = "start"
    /\ IF req.path = DiscoverRoute(variant)
       THEN LET d == authDecision([Middlewares |-> << "auth" >>,
                                  Auth |-> << [Type |-> "bearer", Token |-> << "tok" >>] >>],
                                 req.headers)
            IN  IF d.kind = "pass"
                THEN /\ pc' = "discover"
                     /\ resp' = resp
                     /\ events' = Append(events, [op |-> "auth", result |-> "pass"])
                ELSE /\ pc' = "done"
                     /\ resp' = Append(resp, ErrorResponse(401, "unauthorized"))
                     /\ events' = Append(events, [op |-> "auth", result |-> "reject"])
       ELSE /\ pc' = "done"
            /\ resp' = Append(resp, ErrorResponse(404, "no_route"))
            /\ events' = events
    /\ UNCHANGED <<mainProc, requestBody, interceptorsChain, realWriter, capture, configFile, authConfig, resourcesMutex, thr, snapshots, variant, source, privKey, modified, resources, req, ctx, found>>

\* the router for the discovery group: the handler is registered on the
\* group without any group middleware
DispatchDiscover ==
    /\ pc = "start"
    /\ IF req.path = DiscoverRoute(variant)
       THEN /\ pc' = "discover"
            /\ resp' = resp
       ELSE /\ pc' = "done"
            /\ resp' = Append(resp, ErrorResponse(404, "no_route"))
    /\ events' = events
    /\ UNCHANGED <<mainProc, requestBody, interceptorsChain, realWriter, capture, configFile, authConfig, resourcesMutex, thr, snapshots, variant, source, privKey, modified, resources, req, ctx, found>>

\* HandleDiscoverResources: parse and clamp the query, then list; the listing
\* reloads the registry first and never returns an error
HandleDiscoverResources ==
    /\ pc = "discover"
    /\ resources' = ReloadResourcesIfNeeded(variant, source, resources, modified)
    /\ modified' = FALSE
    /\ LET resourceType == Query(req.query, "type")
           limit == parseLimit(req.query)
           offset == parseOffset(req.query)
       IN  \E order \in KeyOrders(resources') :
              /\ events' = Append(events, [op |-> "discover", type |-> resourceType,
                                           limit |-> limit, offset |-> offset])
              /\ resp' = Append(resp, DiscoverResources(resources', order, resourceType,
                                                        limit, offset))
    /\ pc' = "done"
    /\ UNCHANGED <<mainProc, requestBody, interceptorsChain, realWriter, capture, configFile, authConfig, resourcesMutex, thr, snapshots, variant, source, privKey, req, ctx, found>>

\* values of a limit or offset query parameter
NumStrings == SeqsUpTo(NumChars, MaxNumLen)

\* query strings: every key is optional
DiscoverQueries ==
    { [k \in ks |-> IF k = "type" THEN t ELSE IF k = "limit" THEN l ELSE o] :
        ks \in SUBSET {"type", "limit", "offset"}, t \in {"http", "mcp"},
        l \in NumStrings, o \in NumStrings }

\* headers a discovery request may carry
DiscoverHeaders ==
    { RequestHeaders(<< >>, << >>),
      RequestHeaders(<< "Bearer", " ", "bad" >>, << "garbage" >>) }

InitDiscover ==
    /\ authConfig = NoAdminAuth
    /\ variant \in {"file", "config", "agent"}
    /\ IF variant = "file"
       THEN source \in { << PlainFileEntry, e >> : e \in {f \in FileEntries :
                            f.Middlewares = << "auth", "x402" >>
                              /\ f.Auth = << [Type |-> "bearer", Token |-> << "tok" >>] >>
                              /\ f.X402 # << >> /\ f.TargetURL = "http://origin/t"} }
       ELSE source \in { << PlainConfigEndpoint, e >> : e \in {c \in ConfigEndpoints :
                            c.Middlewares = << AuthMw("bearer"), SellerMw("net1", "0xP") >>
                              /\ c.TargetURL = "http://origin/t"} }
    /\ privKey = ""
    /\ modified = FALSE
    /\ resources = loadResources(variant, source)
    /\ \E h \in DiscoverHeaders :
         \/ \E q \in DiscoverQueries :
               req = [path |-> DiscoverRoute(variant), headers |-> h, query |-> q]
         \/ \E p \in {DiscoverRoute("file"), DiscoverRoute("config")} \ {DiscoverRoute(variant)} :
               req = [path |-> p, headers |-> h, query |-> << >>]
    /\ pc = "start"
    /\ ctx = EmptyCtx
    /\ resp = << >>
    /\ events = << >>
    /\ found = << >>
    /\ resourcesMutex = FreeMutex
    /\ thr = [t \in Threads |-> IdleThread]
    /\ snapshots = {resources}
    /\ configFile = IF variant = "file" THEN << >> ELSE source
    /\ capture = NewResponseCapture
    /\ realWriter = NewWriter
    /\ interceptorsChain = << >>
    /\ requestBody = [unread |-> << >>, closed |-> FALSE]
    /\ mainProc = NotStarted

NextDiscover ==
    \/ DispatchDiscover
    \/ HandleDiscoverResources

SpecDiscover == InitDiscover /\ [][NextDiscover]_vars

\* C19: the discovery service is called with the clamped values: the limit is
\* the numeric value of the parameter when that is in 1..100 and 20 otherwise
\* (0, negative, above 100, non-numeric, absent); the offset is the numeric
\* value when that is not negative and 0 otherwise; so the limit is always in
\* 1..100 and the offset never negative
C19_Clamped ==
    \A i \in EventsOf("discover") :
        LET l == Atoi(DefaultQuery(req.query, "limit", << "2", "0" >>))
            o == Atoi(DefaultQuery(req.query, "offset", << "0" >>))
        IN  /\ events[i].limit \in 1..100
            /\ events[i].offset >= 0
            /\ events[i].limit = IF l.ok /\ l.value \in 1..100 THEN l.value ELSE 20
            /\ events[i].offset = IF o.ok /\ o.value >= 0 THEN o.value ELSE 0

\* C19 witness: a limit above 100 was replaced by 20 and a negative offset by 0
C19_Witness ==
    /\ "limit" \in DOMAIN req.query /\ req.query["limit"] = << "1", "0", "1" >>
    /\ "offset" \in DOMAIN req.query /\ req.query["offset"] = << "-", "1" >>
    /\ \E i \in EventsOf("discover") : events[i].limit = 20 /\ events[i].offset = 0

----------------------------------------------------------------------------
(* Admin listener: AdminAuthMiddleware in front of the admin handlers *)

MaxB64Len == 4

\* characters of the credentials part of a Basic header: four of the base64
\* alphabet, the padding character and one character outside the alphabet
B64Chars == {"Y", "T", "p", "i", "=", "!"}

IsB64(c) == c \in {"Y", "T", "p", "i"}

\* the six-bit value of a base64 character
B64Value(c) == CASE c = "Y" -> 24 [] c = "T" -> 19 [] c = "p" -> 41 [] c = "i" -> 34

\* string(decoded): the character of a byte; bytes outside the credentials'
\* alphabet are one unprintable character
ByteChar(b) == CASE b = 97 -> "a" [] b = 58 -> ":" [] b = 98 -> "b" [] OTHER -> "?"

\* one quantum of four characters: three bytes, or two or one before padding
decodeQuantum(q, last) ==
    IF IsB64(q[1]) /\ IsB64(q[2]) /\ IsB64(q[3]) /\ IsB64(q[4])
    THEN LET n == B64Value(q[1]) * 262144 + B64Value(q[2]) * 4096
                    + B64Value(q[3]) * 64 + B64Value(q[4])
         IN  [ok |-> TRUE, bytes |-> << n \div 65536, (n \div 256) % 256, n % 256 >>]
    ELSE IF last /\ IsB64(q[1]) /\ IsB64(q[2]) /\ IsB64(q[3]) /\ q[4] = "="
    THEN LET n == B64Value(q[1]) * 262144 + B64Value(q[2]) * 4096 + B64Value(q[3]) * 64
         IN  [ok |-> TRUE, bytes |-> << n \div 65536, (n \div 256) % 256 >>]
    ELSE IF last /\ IsB64(q[1]) /\ IsB64(q[2]) /\ q[3] = "=" /\ q[4] = "="
    THEN LET n == B64Value(q[1]) * 262144 + B64Value(q[2]) * 4096
         IN  [ok |-> TRUE, bytes |-> << n \div 65536 >>]
    ELSE [ok |-> FALSE, bytes |-> << >>]

\* base64.StdEncoding.DecodeString: padded input in quanta of four characters
RECURSIVE DecodeString(_)
DecodeString(s) ==
    IF s = << >> THEN [ok |-> TRUE, bytes |-> << >>]
    ELSE IF Len(s) < 4 THEN [ok |-> FALSE, bytes |-> << >>]
    ELSE LET head == decodeQuantum(SubSeq(s, 1, 4), Len(s) = 4)
             rest == DecodeString(SubSeq(s, 5, Len(s)))
         IN  IF head.ok /\ rest.ok THEN [ok |-> TRUE, bytes |-> head.bytes \o rest.bytes]
             ELSE [ok |-> FALSE, bytes |-> << >>]

\* isValidToken
isValidToken(token, validTokens) ==
    \E i \in 1..Len(validTokens) : validTokens[i] = token

\* the outcome of a validate function: abort with a response, or store the
\* credential in the context under key
AdminAbort(status, kind) == [abort |-> TRUE, status |-> status, error |-> kind,
                             key |-> "", value |-> << >>]

AdminPass(key, value) == [abort |-> FALSE, status |-> 0, error |-> "",
                          key |-> key, value |-> value]

\* validateBearerAuth
validateBearerAuth(headers, validTokens) ==
    LET authHeader == GetHeader(headers, "Authorization")
        parts == SplitSpace(authHeader)
    IN  IF authHeader = << >> THEN AdminAbort(401, "missing_authorization")
        ELSE IF Len(parts) # 2 \/ parts[1] # << "Bearer" >>
        THEN AdminAbort(401, "invalid_authorization_format")
        ELSE IF ~isValidToken(parts[2], validTokens) THEN AdminAbort(401, "invalid_token")
        ELSE AdminPass("auth_token", parts[2])

\* validateBasicAuth
validateBasicAuth(headers, validTokens) ==
    LET authHeader == GetHeader(headers, "Authorization")
        parts == SplitSpace(authHeader)
    IN  IF authHeader = << >> THEN AdminAbort(401, "missing_authorization")
        ELSE IF Len(parts) # 2 \/ parts[1] # << "Basic" >>
        THEN AdminAbort(401, "invalid_authorization_format")
        ELSE LET decoded == DecodeString(parts[2])
                 credentials == [i \in 1..Len(decoded.bytes) |-> ByteChar(decoded.bytes[i])]
             IN  IF ~decoded.ok THEN AdminAbort(401, "invalid_authorization_format")
                 ELSE IF ~isValidToken(credentials, validTokens)
                 THEN AdminAbort(401, "invalid_credentials")
                 ELSE AdminPass("auth_credentials", credentials)

\* c.Query for a value kept as a character string: empty when the key is absent
QueryString(query, key) == IF key \in DOMAIN query THEN query[key] ELSE << >>

\* mutant of validateAPIKeyAuth: the query parameter is accepted although the
\* header carries another key
validateAPIKeyAuthEither(headers, query, validTokens) ==
    LET fromHeader == GetHeader(headers, "X-API-Key")
        fromQuery == QueryString(query, "api_key")
    IN  IF fromHeader = << >> /\ fromQuery = << >> THEN AdminAbort(401, "missing_api_key")
        ELSE IF isValidToken(fromHeader, validTokens) THEN AdminPass("api_key", fromHeader)
        ELSE IF isValidToken(fromQuery, validTokens) THEN AdminPass("api_key", fromQuery)
        ELSE AdminAbort(401, "invalid_api_key")

\* validateAPIKeyAuth: the X-API-Key header, and the api_key query parameter
\* only when the header is empty
validateAPIKeyAuth(headers, query, validTokens) ==
    LET fromHeader == GetHeader(headers, "X-API-Key")
        apiKey == IF fromHeader = << >> THEN QueryString(query, "api_key") ELSE fromHeader
    IN  IF apiKey = << >> THEN AdminAbort(401, "missing_api_key")
        ELSE IF ~isValidToken(apiKey, validTokens) THEN AdminAbort(401, "invalid_api_key")
        ELSE AdminPass("api_key", apiKey)

\* the router of the admin listener: setupAdminMiddleware installs the auth
\* middleware only when auth is enabled
AdminDispatch ==
    /\ pc = "start"
    /\ pc' = IF authConfig.AuthEnabled THEN "adminauth" ELSE "handler"
    /\ UNCHANGED <<mainProc, requestBody, interceptorsChain, realWriter, capture, configFile, authConfig, resourcesMutex, thr, snapshots, variant, source, privKey,
                   modified, resources, req, ctx, resp, events, found>>

\* AdminAuthMiddleware
AdminAuthMiddleware ==
    /\ pc = "adminauth"
    /\ IF req.path = "/health" \/ req.path = "/ready"
       THEN /\ pc' = "handler"
            /\ UNCHANGED <<mainProc, requestBody, interceptorsChain, realWriter, capture, configFile, ctx, resp>>
       ELSE IF authConfig.AuthType \notin {"bearer", "basic", "api_key"}
       THEN /\ resp' = Append(resp, ErrorResponse(500, "invalid_auth_config"))
            /\ pc' = "done"
            /\ ctx' = ctx
       ELSE LET d == IF authConfig.AuthType = "bearer"
                     THEN validateBearerAuth(req.headers, authConfig.AuthTokens)
                     ELSE IF authConfig.AuthType = "basic"
                     THEN validateBasicAuth(req.headers, authConfig.AuthTokens)
                     ELSE validateAPIKeyAuth(req.headers, req.query, authConfig.AuthTokens)
            IN  IF d.abort
                THEN /\ resp' = Append(resp, ErrorResponse(d.status, d.error))
                     /\ pc' = "done"
                     /\ ctx' = ctx
                ELSE /\ ctx' = (d.key :> d.value) @@ ctx
                     /\ pc' = "handler"
                     /\ resp' = resp
    /\ UNCHANGED <<mainProc, requestBody, interceptorsChain, realWriter, capture, configFile, authConfig, resourcesMutex, thr, snapshots, variant, source, privKey,
                   modified, resources, req, events, found>>

\* the handler the router selected for the path (Health, Ready, metrics, or
\* the router's 404) runs
AdminHandler ==
    /\ pc = "handler"
    /\ events' = Append(events, [op |-> "handler", path |-> req.path])
    /\ resp' = Append(resp, [status |-> IF req.path \in {"/health", "/ready", "/metrics"}
                                        THEN 200 ELSE 404,
                             handler |-> req.path])
    /\ pc' = "done"
    /\ UNCHANGED <<mainProc, requestBody, interceptorsChain, realWriter, capture, configFile, authConfig, resourcesMutex, thr, snapshots, variant, source, privKey,
                   modified, resources, req, ctx, found>>

\* the allow-lists of the admin configuration: a bearer token, basic
\* credentials and an API key
AdminTokenLists ==
    { << << "tok" >>, << "a", ":", "b" >>, << "key" >> >>, << << "a" >> >> }

AdminConfigs ==
    { NoAdminAuth } \cup
    { [AuthEnabled |-> TRUE, AuthType |-> t, AuthTokens |-> l] :
        t \in {"bearer", "basic", "api_key", "oauth"}, l \in AdminTokenLists }

\* Authorization headers of admin requests
AdminAuthHeaders ==
    { << >>, << "Bearer", " ", "tok" >>, << "Bearer", " ", "bad" >>, << "tok" >>,
      << "Bearer", " ", "tok", " ", "x" >>, << "Basic", " " >> } \cup
    { << "Basic", " " >> \o c : c \in SeqsUpTo(B64Chars, MaxB64Len) }

\* the headers of an admin request
AdminHeaders(a, k) ==
    [n \in (IF a = << >> THEN {} ELSE {"Authorization"})
           \cup (IF k = << >> THEN {} ELSE {"X-API-Key"}) |->
        IF n = "Authorization" THEN a ELSE k]

\* the api_key query parameter of an admin request
AdminQueries == { << >>, [n \in {"api_key"} |-> << "key" >>] }

InitAdmin ==
    /\ authConfig \in AdminConfigs
    /\ variant = "config"
    /\ source = << >>
    /\ privKey = ""
    /\ modified = FALSE
    /\ resources = << >>
    /\ \E p \in {"/health", "/ready", "/metrics", "/admin"},
          a \in AdminAuthHeaders, k \in { << >>, << "key" >>, << "bad" >> },
          q \in AdminQueries :
         req = [path |-> p, headers |-> AdminHeaders(a, k), query |-> q]
    /\ pc = "start"
    /\ ctx = << >>
    /\ resp = << >>
    /\ events = << >>
    /\ found = << >>
    /\ resourcesMutex = FreeMutex
    /\ thr = [t \in Threads |-> IdleThread]
    /\ snapshots = {resources}
    /\ configFile = IF variant = "file" THEN << >> ELSE source
    /\ capture = NewResponseCapture
    /\ realWriter = NewWriter
    /\ interceptorsChain = << >>
    /\ requestBody = [unread |-> << >>, closed |-> FALSE]
    /\ mainProc = NotStarted

NextAdmin ==
    \/ AdminDispatch
    \/ AdminAuthMiddleware
    \/ AdminHandler

SpecAdmin == InitAdmin /\ [][NextAdmin]_vars

\* the credential of the configured auth type that the request presents
PresentedCredential ==
    LET parts == SplitSpace(GetHeader(req.headers, "Authorization"))
    IN  IF authConfig.AuthType = "bearer"
        THEN IF Len(parts) = 2 /\ parts[1] = << "Bearer" >> THEN << parts[2] >> ELSE << >>
        ELSE IF authConfig.AuthType = "basic"
        THEN IF Len(parts) = 2 /\ parts[1] = << "Basic" >> /\ DecodeString(parts[2]).ok
             THEN << [i \in 1..Len(DecodeString(parts[2]).bytes) |->
                         ByteChar(DecodeString(parts[2]).bytes[i])] >>
             ELSE << >>
        ELSE IF authConfig.AuthType = "api_key"
        THEN IF GetHeader(req.headers, "X-API-Key") # << >>
             THEN << GetHeader(req.headers, "X-API-Key") >>
             ELSE IF QueryString(req.query, "api_key") # << >>
             THEN << QueryString(req.query, "api_key") >>
             ELSE << >>
        ELSE << >>

\* the request is let through by the claim's rule
AdminAdmitted ==
    \/ req.path \in {"/health", "/ready"}
    \/ /\ PresentedCredential # << >>
       /\ \E i \in 1..Len(authConfig.AuthTokens) :
              authConfig.AuthTokens[i] = PresentedCredential[1]

\* C21: with admin authentication enabled a request reaches its handler if and
\* only if its path is /health or /ready or it presents a credential of the
\* configured type that is in the allow-list; every other request is answered
\* with 401 by the middleware alone, or with 500 when the configured type is
\* unknown
C21_AdminGate ==
    authConfig.AuthEnabled =>
        /\ EventsOf("handler") # {} => AdminAdmitted
        /\ pc = "handler" => AdminAdmitted
        /\ pc = "done" =>
             IF AdminAdmitted THEN EventsOf("handler") # {}
             ELSE /\ EventsOf("handler") = {}
                  /\ Len(resp) = 1
                  /\ resp[1].status = IF authConfig.AuthType \in {"bearer", "basic", "api_key"}
                                      THEN 401 ELSE 500

\* C21 witness: basic auth is configured and the handler of /metrics ran for
\* a request whose base64 credentials decode to an entry of the allow-list
C21_Witness ==
    /\ authConfig.AuthEnabled
    /\ authConfig.AuthType = "basic"
    /\ req.path = "/metrics"
    /\ GetHeader(req.headers, "Authorization") = << "Basic", " ", "Y", "T", "p", "i" >>
    /\ EventsOf("handler") # {}
    /\ "auth_credentials" \in DOMAIN ctx /\ ctx["auth_credentials"] = << "a", ":", "b" >>

----------------------------------------------------------------------------
(* Hot reload: requests served before and after the operator changes the    *)
(* resource configuration                                                   *)

\* the resource configurations the operator switches between
HotFileSources ==
    { << >>, << PlainFileEntry >> } \cup
    { << PlainFileEntry, e >> : e \in {f \in FileEntries :
         /\ f.Middlewares = << "auth" >>
         /\ f.Auth = << [Type |-> "bearer", Token |-> << "tok" >>] >>
         /\ f.X402 = << >> /\ f.TargetURL = "http://origin/t"} }

HotConfigSources ==
    { << >>, << PlainConfigEndpoint >> } \cup
    { << PlainConfigEndpoint, e >> : e \in {c \in ConfigEndpoints :
         c.Middlewares = << AuthMw("bearer") >> /\ c.TargetURL = "http://origin/t"} }

\* the operator rewrites the configuration between two requests:
\* resources.json gets a newer mtime; config.yaml is only read by LoadConfig
\* at start-up, so the endpoints in memory stay as they are
OperatorEdit ==
    /\ pc \in {"idle", "done"}
    /\ IF variant = "file"
       THEN /\ \E s \in HotFileSources \ {source} : source' = s
            /\ modified' = TRUE
            /\ configFile' = configFile
       ELSE /\ \E s \in HotConfigSources \ {configFile} : configFile' = s
            /\ UNCHANGED <<mainProc, requestBody, interceptorsChain, realWriter, capture, source, modified>>
    /\ pc' = "idle"
    /\ UNCHANGED <<mainProc, requestBody, interceptorsChain, realWriter, capture, authConfig, resourcesMutex, thr, snapshots, variant, privKey, resources,
                   req, ctx, resp, events, found>>

\* the next request enters the handler chain with a fresh gin context
Arrive ==
    /\ pc \in {"idle", "done"}
    /\ \E p \in { << "/", "api", "/", "x" >>, << "/", "api", "/", "z" >> },
          a \in { << >>, << "Bearer", " ", "tok" >> } :
         req' = [path |-> p, headers |-> RequestHeaders(a, << >>)]
    /\ pc' = "start"
    /\ ctx' = EmptyCtx
    /\ resp' = << >>
    /\ events' = << >>
    /\ found' = << >>
    /\ UNCHANGED <<mainProc, requestBody, interceptorsChain, realWriter, capture, configFile, authConfig, resourcesMutex, thr, snapshots, variant, source,
                   privKey, modified, resources>>

InitHotReload ==
    /\ authConfig = NoAdminAuth
    /\ variant \in {"file", "config", "agent"}
    /\ source \in (IF variant = "file" THEN HotFileSources ELSE HotConfigSources)
    /\ configFile = IF variant = "file" THEN << >> ELSE source
    /\ privKey = ""
    /\ modified = FALSE
    /\ resources = loadResources(variant, source)
    /\ req = [path |-> << >>, headers |-> << >>]
    /\ pc = "idle"
    /\ ctx = EmptyCtx
    /\ resp = << >>
    /\ events = << >>
    /\ found = << >>
    /\ resourcesMutex = FreeMutex
    /\ thr = [t \in Threads |-> IdleThread]
    /\ snapshots = {resources}
    /\ capture = NewResponseCapture
    /\ realWriter = NewWriter
    /\ interceptorsChain = << >>
    /\ requestBody = [unread |-> << >>, closed |-> FALSE]
    /\ mainProc = NotStarted

NextHotReload ==
    \/ OperatorEdit
    \/ Arrive
    \/ Dispatch
    \/ ResourceAuthMiddleware
    \/ ResourcePayMiddleware
    \/ HandleResourceRequest

SpecHotReload == InitHotReload /\ [][NextHotReload]_vars

\* the registry the configuration as it now stands describes
ConfiguredRegistry ==
    loadResources(variant, IF variant = "file" THEN source ELSE configFile)

\* the entry of the configuration as it now stands that governs the request
ConfiguredResource ==
    FindResourceIn(ConfiguredRegistry,
                   CHOOSE o \in KeyOrders(ConfiguredRegistry) : TRUE, req.path)

\* C22: a request that entered the pipeline after the last change of the
\* resource configuration is resolved against the new configuration: a path
\* the configuration now covers is served under its entry, and a path it no
\* longer covers gets 404
C22_HotReload ==
    pc = "done" =>
        IF ConfiguredResource = << >>
        THEN resp # << >> /\ resp[1].status = 404
        ELSE ctx.resource_config = ConfiguredResource


----------------------------------------------------------------------------
(* C23: order and number of the facilitator calls *)

\* the X-Payment header parsed and its scheme and network are those of the
\* requirements of the resolved resource
PayloadMatches ==
    LET paymentPayload == UnmarshalPayment(GetHeader(req.headers, "X-Payment"))
    IN  /\ paymentPayload.ok
        /\ ctx.resource_config # << >>
        /\ ctx.resource_config[1].X402 # << >>
        /\ paymentPayload.Scheme = ctx.resource_config[1].X402[1].Scheme
        /\ paymentPayload.Network = ctx.resource_config[1].X402[1].Network

\* C23: facilitator.verify is called only after the X-Payment header parsed
\* and its scheme and network matched the requirements; facilitator.settle is
\* called only after a verify that returned is_valid=true without error; each
\* is called at most once per request, so a failed settle is not retried
C23_FacilitatorCalls ==
    /\ Cardinality(EventsOf("verify")) <= 1
    /\ Cardinality(EventsOf("settle")) <= 1
    /\ EventsOf("verify") # {} => PayloadMatches
    /\ \A j \in EventsOf("settle") :
          \E i \in EventsOf("verify") : i < j /\ events[i].result = "valid"

\* C23 witness: the payload matched, verify succeeded, settle failed and was
\* not called again; the caller got 402 payment_failed
C23_Witness ==
    /\ pc = "done"
    /\ \E i \in EventsOf("verify") : events[i].result = "valid"
    /\ \E j \in EventsOf("settle") : events[j].result = "failed"
    /\ resp = << ErrorResponse(402, "payment_failed") >>
    /\ OriginCalls = {}

----------------------------------------------------------------------------
(* ResponseCapture and the client's writer *)

MaxCalls == 4

\* http.Header.Add
HeaderAdd(h, key, value) ==
    [k \in DOMAIN h \cup {key} |->
        IF k = key THEN (IF k \in DOMAIN h THEN h[k] ELSE << >>) \o << value >> ELSE h[k]]

\* mutant of WriteHeader: a later call overwrites the recorded status
WriteHeaderLast(rc, code) ==
    [rc EXCEPT !.statusCode = code, !.headerWritten = TRUE]

\* ResponseCapture.WriteHeader
WriteHeader(rc, code) ==
    IF ~rc.headerWritten THEN [rc EXCEPT !.statusCode = code, !.headerWritten = TRUE]
    ELSE rc

\* ResponseCapture.Write
Write(rc, b) ==
    LET rc1 == IF ~rc.headerWritten THEN WriteHeader(rc, 200) ELSE rc
    IN  [rc1 EXCEPT !.body = @ \o b]

\* gin's ResponseWriter.WriteHeader: the pending status changes until the
\* first byte is written
ginWriteHeader(w, code) ==
    IF code > 0 /\ w.status # code /\ ~w.written THEN [w EXCEPT !.status = code] ELSE w

\* gin's ResponseWriter.Write: the first call commits status line and headers
ginWrite(w, b) ==
    LET w1 == IF w.written THEN w
              ELSE [w EXCEPT !.written = TRUE,
                             !.sent = << [status |-> w.status, headers |-> w.headers] >>]
    IN  [w1 EXCEPT !.body = @ \o b]

\* the header loop of flush: every captured value is added to the writer's map
copyHeaders(dst, src) ==
    [k \in DOMAIN dst \cup DOMAIN src |->
        (IF k \in DOMAIN dst THEN dst[k] ELSE << >>) \o
        (IF k \in DOMAIN src THEN src[k] ELSE << >>)]

\* mutant of flush: the captured headers are not copied
flushNoHeaders(rc, w) ==
    LET w2 == IF rc.headerWritten THEN ginWriteHeader(w, rc.statusCode) ELSE w
    IN  ginWrite(w2, rc.body)

\* ResponseCapture.flush
flush(rc, w) ==
    LET w1 == [w EXCEPT !.headers = copyHeaders(@, rc.headers)]
        w2 == IF rc.headerWritten THEN ginWriteHeader(w1, rc.statusCode) ELSE w1
    IN  ginWrite(w2, rc.body)

StatusCodes == {200, 402, 500}

ByteSlices == { << >>, << "a" >>, << "b", "c" >> }

\* a downstream handler adds a header through Header()
CallHeader ==
    /\ pc = "capturing"
    /\ Len(events) < MaxCalls
    /\ \E key \in {"Content-Type", "X-Request-ID"}, value \in {"v1", "v2"} :
         /\ capture' = [capture EXCEPT !.headers = HeaderAdd(@, key, value)]
         /\ events' = Append(events, [op |-> "Header", key |-> key, value |-> value])
    /\ UNCHANGED <<mainProc, requestBody, interceptorsChain, realWriter, configFile, authConfig, resourcesMutex, thr,
                   snapshots, variant, source, privKey, modified, resources, req, pc, ctx,
                   resp, found>>

CallWriteHeader ==
    /\ pc = "capturing"
    /\ Len(events) < MaxCalls
    /\ \E code \in StatusCodes :
         /\ capture' = WriteHeader(capture, code)
         /\ events' = Append(events, [op |-> "WriteHeader", code |-> code])
    /\ UNCHANGED <<mainProc, requestBody, interceptorsChain, realWriter, configFile, authConfig, resourcesMutex, thr,
                   snapshots, variant, source, privKey, modified, resources, req, pc, ctx,
                   resp, found>>

CallWrite ==
    /\ pc = "capturing"
    /\ Len(events) < MaxCalls
    /\ \E b \in ByteSlices :
         /\ capture' = Write(capture, b)
         /\ events' = Append(events, [op |-> "Write", b |-> b])
    /\ UNCHANGED <<mainProc, requestBody, interceptorsChain, realWriter, configFile, authConfig, resourcesMutex, thr,
                   snapshots, variant, source, privKey, modified, resources, req, pc, ctx,
                   resp, found>>

CallFlush ==
    /\ pc = "capturing"
    /\ realWriter' = flush(capture, realWriter)
    /\ pc' = "flushed"
    /\ UNCHANGED <<mainProc, requestBody, interceptorsChain, capture, configFile, authConfig, resourcesMutex, thr,
                   snapshots, variant, source, privKey, modified, resources, req, ctx,
                   resp, events, found>>

\* headers the envelope middlewares have put on the client's writer before
\* the proxy runs
PriorHeaders ==
    { << >>, [k \in {"X-Request-ID"} |-> << "r1" >>] }

InitCapture ==
    /\ authConfig = NoAdminAuth
    /\ variant = "agent"
    /\ source = << >>
    /\ configFile = << >>
    /\ privKey = ""
    /\ modified = FALSE
    /\ resources = << >>
    /\ req = [path |-> << >>, headers |-> << >>]
    /\ pc = "capturing"
    /\ ctx = EmptyCtx
    /\ resp = << >>
    /\ events = << >>
    /\ found = << >>
    /\ resourcesMutex = FreeMutex
    /\ thr = [t \in Threads |-> IdleThread]
    /\ snapshots = {resources}
    /\ interceptorsChain = << >>
    /\ capture = NewResponseCapture
    /\ \E h \in PriorHeaders : realWriter = [NewWriter EXCEPT !.headers = h]
    /\ requestBody = [unread |-> << >>, closed |-> FALSE]
    /\ mainProc = NotStarted

NextCapture ==
    \/ CallHeader
    \/ CallWriteHeader
    \/ CallWrite
    \/ CallFlush

SpecCapture == InitCapture /\ [][NextCapture]_vars

\* the WriteHeader and Write calls made on the capture so far
StatusCalls == {i \in 1..Len(events) : events[i].op \in {"WriteHeader", "Write"}}

\* the status the first of these calls stands for
FirstStatus ==
    LET i == CHOOSE x \in StatusCalls : \A y \in StatusCalls : x <= y
    IN  IF events[i].op = "WriteHeader" THEN events[i].code ELSE 200

\* C28: the recorded status is the code of the first WriteHeader call, or 200
\* when a Write came before any WriteHeader; later WriteHeader calls do not
\* change it; flush emits exactly that status
C28_FirstStatus ==
    /\ capture.headerWritten <=> StatusCalls # {}
    /\ StatusCalls # {} => capture.statusCode = FirstStatus
    /\ (pc = "flushed" /\ StatusCalls # {}) =>
          /\ realWriter.sent # << >>
          /\ realWriter.sent[1].status = FirstStatus

\* C28 witness: WriteHeader(402) was followed by WriteHeader(200) and a Write,
\* and the flush emitted 402
C28_Witness ==
    /\ pc = "flushed"
    /\ Len(events) >= 3
    /\ events[1] = [op |-> "WriteHeader", code |-> 402]
    /\ events[2] = [op |-> "WriteHeader", code |-> 200]
    /\ events[3].op = "Write"
    /\ realWriter.sent # << >> /\ realWriter.sent[1].status = 402

\* the concatenation of the byte slices written so far, in call order
RECURSIVE WrittenBytes(_)
WrittenBytes(i) ==
    IF i = 0 THEN << >>
    ELSE WrittenBytes(i - 1) \o (IF events[i].op = "Write" THEN events[i].b ELSE << >>)

\* the header values added through Header() so far under key, in call order
RECURSIVE AddedValues(_, _)
AddedValues(key, i) ==
    IF i = 0 THEN << >>
    ELSE AddedValues(key, i - 1) \o
         (IF events[i].op = "Header" /\ events[i].key = key
          THEN << events[i].value >> ELSE << >>)

----------------------------------------------------------------------------
(* AgentReverseProxy.ServeHTTP and its interceptor chain *)

MaxInterceptors == 2

\* what a registered InterceptorFunc does when it is called: "buyer" is
\* X402BuyerInterceptor; "false" returns false and leaves capture and writer
\* alone, "flushTrue" flushes the capture itself and returns true, "jsonTrue"
\* answers with c.JSON on the client's writer and returns true
InterceptorKinds == {"buyer", "false", "flushTrue", "jsonTrue"}

\* how far X402BuyerInterceptor gets on a captured 402: the step that fails,
\* or the retry with the status the origin answers it with (502: transport
\* error, written by the ErrorHandler)
BuyerPaths ==
    { [step |-> s, code |-> 500] : s \in {"parse", "create", "marshal", "newrequest"} }
        \cup { [step |-> "retry", code |-> c] : c \in {200, 402, 502} }

\* gin's c.JSON(code, obj) on the client's writer
ginJSON(w, code, body) ==
    LET w1 == [w EXCEPT !.headers =
                  [k \in DOMAIN w.headers \cup {"Content-Type"} |->
                      IF k = "Content-Type" THEN << "application/json" >>
                      ELSE w.headers[k]]]
    IN  ginWrite(ginWriteHeader(w1, code), body)

\* httputil.ReverseProxy.ServeHTTP writing the origin's answer to rw when rw
\* is the client's writer
proxyWrite(w, code, body) == ginWrite(ginWriteHeader(w, code), body)

\* what the first proxy pass leaves of c.Request.Body: with ContentLength 0
\* the proxy drops the body from the outgoing request and never touches it;
\* otherwise the transport has read some or all of it and the proxy's
\* deferred Close has closed it
AfterPass(body) ==
    IF body = << >> THEN { [unread |-> << >>, closed |-> FALSE] }
    ELSE { [unread |-> SubSeq(body, k, Len(body)), closed |-> TRUE] : k \in 1..(Len(body) + 1) }

\* io.ReadAll(c.Request.Body): a closed server body answers every Read with
\* ErrBodyReadAfterClose
ioReadAll(stream) ==
    IF stream.closed THEN [err |-> TRUE, bytes |-> << >>]
    ELSE [err |-> FALSE, bytes |-> stream.unread]

\* the retry request as the origin receives it: http.NewRequestWithContext
\* with the method of c.Request and the bytes read back from its body (no
\* body when the read failed), X-Payment set, then the Director's header copy
retryRequest(r, stream, paymentJSON) ==
    LET read == ioReadAll(stream)
    IN  [method  |-> r.method,
         body    |-> IF read.err THEN << >> ELSE read.bytes,
         headers |-> directorAgent([n \in {"X-Payment"} |-> paymentJSON], r.headers)]

\* mutant of interceptor: on payment_creation_failed the buyer interceptor
\* flushes the captured 402 before it writes the error
interceptorFlushFirst(kind, rc, w, path) ==
    CASE kind = "false"     -> [w |-> w, ret |-> FALSE]
      [] kind = "flushTrue" -> [w |-> flush(rc, w), ret |-> TRUE]
      [] kind = "jsonTrue"  -> [w |-> ginJSON(w, 500, << "e" >>), ret |-> TRUE]
      [] kind = "buyer"     ->
            IF rc.statusCode # 402 THEN [w |-> w, ret |-> FALSE]
            ELSE IF path.step = "parse" THEN [w |-> flush(rc, w), ret |-> TRUE]
            ELSE IF path.step = "create"
            THEN [w |-> ginJSON(flush(rc, w), 500, << "e" >>), ret |-> TRUE]
            ELSE IF path.step = "retry"
            THEN [w |-> proxyWrite(w, path.code, << "r" >>), ret |-> TRUE]
            ELSE [w |-> ginJSON(w, 500, << "e" >>), ret |-> TRUE]

\* one call of an interceptor: the client's writer afterwards and the value
\* returned
interceptor(kind, rc, w, path) ==
    CASE kind = "false"     -> [w |-> w, ret |-> FALSE]
      [] kind = "flushTrue" -> [w |-> flush(rc, w), ret |-> TRUE]
      [] kind = "jsonTrue"  -> [w |-> ginJSON(w, 500, << "e" >>), ret |-> TRUE]
      [] kind = "buyer"     ->
            IF rc.statusCode # 402 THEN [w |-> w, ret |-> FALSE]
            ELSE IF path.step = "parse" THEN [w |-> flush(rc, w), ret |-> TRUE]
            ELSE IF path.step = "retry"
            THEN [w |-> proxyWrite(w, path.code, << "r" >>), ret |-> TRUE]
            ELSE [w |-> ginJSON(w, 500, << "e" >>), ret |-> TRUE]

\* the interceptor calls made so far
InterceptorCalls == {i \in 1..Len(events) : events[i].op = "interceptor"}

\* the flushes ServeHTTP itself has made so far
ProxyFlushes == {i \in 1..Len(events) : events[i].op = "flush"}

\* AgentReverseProxy.AddInterceptor
AddInterceptor ==
    /\ pc = "setup"
    /\ Len(interceptorsChain) < MaxInterceptors
    /\ \E kind \in InterceptorKinds : interceptorsChain' = Append(interceptorsChain, kind)
    /\ UNCHANGED <<mainProc, requestBody, realWriter, capture, configFile, authConfig, resourcesMutex,
                   thr, snapshots, variant, source, privKey, modified, resources, req, pc,
                   ctx, resp, events, found>>

\* ServeHTTP up to the loop: the request goes to the origin; without
\* interceptors the answer goes to the client's writer, otherwise into a
\* fresh capture
ServeHTTPProxy ==
    /\ pc = "setup"
    /\ \E code \in StatusCodes, b \in {<< "a" >>, << "b", "c" >>} :
         IF Len(interceptorsChain) = 0
         THEN /\ realWriter' = proxyWrite(realWriter, code, b)
              /\ capture' = capture
              /\ pc' = "done"
         ELSE /\ capture' = Write(WriteHeader(NewResponseCapture, code), b)
              /\ realWriter' = realWriter
              /\ pc' = "chain"
    /\ requestBody' \in AfterPass(req.body)
    /\ events' = Append(events, [op |-> "origin", pass |-> 1, method |-> req.method,
                                 body |-> req.body,
                                 headers |-> directorAgent(req.headers, req.headers)])
    /\ UNCHANGED <<mainProc, interceptorsChain, configFile, authConfig, resourcesMutex, thr,
                   snapshots, variant, source, privKey, modified, resources, req, ctx,
                   resp, found>>

\* one iteration of the loop of ServeHTTP: the next interceptor is called; on
\* true ServeHTTP returns, on false the capture is flushed and the loop goes on
ServeHTTPLoop ==
    /\ pc = "chain"
    /\ \E path \in BuyerPaths :
       LET k == Cardinality(InterceptorCalls) + 1
           kind == interceptorsChain[k]
           buying == kind = "buyer" /\ capture.statusCode = 402
           r == interceptor(kind, capture, realWriter, path)
           reads == buying /\ path.step \in {"newrequest", "retry"}
           retry == retryRequest(req, requestBody, << "{", "exact", "net1", "}" >>)
           sent == IF buying /\ path.step = "retry"
                   THEN << [op |-> "origin", pass |-> 2, method |-> retry.method,
                            body |-> retry.body, headers |-> retry.headers] >>
                   ELSE << >>
           call == [op |-> "interceptor", i |-> k, ret |-> r.ret,
                    step |-> IF buying THEN path.step ELSE "none",
                    code |-> IF buying THEN path.code ELSE 0]
       IN  /\ requestBody' = IF reads /\ ~requestBody.closed
                             THEN [requestBody EXCEPT !.unread = << >>]
                             ELSE requestBody
           /\ IF r.ret
              THEN /\ realWriter' = r.w
                   /\ events' = events \o sent \o << call >>
                   /\ pc' = "done"
              ELSE /\ realWriter' = flush(capture, r.w)
                   /\ events' = events \o << call, [op |-> "flush"] >>
                   /\ pc' = IF k = Len(interceptorsChain) THEN "done" ELSE "chain"
    /\ UNCHANGED <<mainProc, interceptorsChain, capture, configFile, authConfig, resourcesMutex, thr,
                   snapshots, variant, source, privKey, modified, resources, req, ctx,
                   resp, found>>

\* the requests a caller sends: method, body bytes and headers
ChainRequests ==
    { [path |-> << >>, method |-> m, body |-> b, headers |-> h] :
        m \in {"GET", "POST"}, b \in {<< >>, << "x", "y" >>},
        h \in { << >>, [n \in {"Accept"} |-> << "j" >>] } }

InitChain ==
    /\ authConfig = NoAdminAuth
    /\ variant = "agent"
    /\ source = << >>
    /\ configFile = << >>
    /\ privKey = "key"
    /\ modified = FALSE
    /\ resources = << >>
    /\ req \in ChainRequests
    /\ pc = "setup"
    /\ ctx = EmptyCtx
    /\ resp = << >>
    /\ events = << >>
    /\ found = << >>
    /\ resourcesMutex = FreeMutex
    /\ thr = [t \in Threads |-> IdleThread]
    /\ snapshots = {resources}
    /\ interceptorsChain = << >>
    /\ capture = NewResponseCapture
    /\ \E h \in PriorHeaders : realWriter = [NewWriter EXCEPT !.headers = h]
    /\ requestBody = [unread |-> req.body, closed |-> FALSE]
    /\ mainProc = NotStarted

NextChain ==
    \/ AddInterceptor
    \/ ServeHTTPProxy
    \/ ServeHTTPLoop

SpecChain == InitChain /\ [][NextChain]_vars

\* C24: with n >= 1 interceptors registered they are called in registration
\* order; once one has returned true nothing more happens; no interceptor is
\* called after a flush of the proxy; and when all n have returned false the
\* proxy has flushed the capture exactly once, after the last call, so the
\* client holds the captured body once
C24_Chain ==
    Len(interceptorsChain) >= 1 =>
        /\ \A i \in InterceptorCalls : events[i].i = Cardinality({j \in InterceptorCalls : j <= i})
        /\ \A i \in InterceptorCalls : events[i].ret => i = Len(events)
        /\ \A f \in ProxyFlushes : \A i \in InterceptorCalls : i < f
        /\ (pc = "done" /\ \A i \in InterceptorCalls : ~events[i].ret) =>
              /\ Cardinality(ProxyFlushes) = 1
              /\ realWriter.body = capture.body

\* the response the client's writer has committed: status line and body
Delivered(status, body) ==
    /\ realWriter.written
    /\ Len(realWriter.sent) = 1
    /\ realWriter.sent[1].status = status
    /\ realWriter.body = body

\* C25: on a proxy whose chain is the buyer interceptor, every finished
\* request has put exactly one response on the client's writer: the captured
\* one when the origin did not answer 402 or the 402 could not be parsed, the
\* error response when a later step failed, the retry's answer otherwise;
\* never two of them and none twice
C25_OneResponse ==
    (interceptorsChain = << "buyer" >> /\ pc = "done") =>
        LET call == events[CHOOSE i \in InterceptorCalls : TRUE]
        IN  /\ Cardinality(InterceptorCalls) = 1
            /\ call.step \in {"none", "parse"} =>
                  Delivered(capture.statusCode, capture.body)
            /\ call.step \in {"create", "marshal", "newrequest"} =>
                  Delivered(500, << "e" >>)
            /\ call.step = "retry" => Delivered(call.code, << "r" >>)

\* C25 witness: the buyer interceptor paid and the retry's 200 is what the
\* client got
C25_Witness ==
    /\ interceptorsChain = << "buyer" >> /\ pc = "done"
    /\ capture.statusCode = 402
    /\ \E i \in InterceptorCalls : events[i].step = "retry" /\ events[i].code = 200
    /\ Delivered(200, << "r" >>)

\* C26: the retry request of the buyer interceptor has the method and the
\* body bytes of the request the caller sent, and its headers are the
\* caller's with X-Payment added
C26_RetryIsClone ==
    \A i \in 1..Len(events) :
        (events[i].op = "origin" /\ events[i].pass = 2) =>
            /\ events[i].method = req.method
            /\ events[i].body = req.body
            /\ DOMAIN events[i].headers = DOMAIN req.headers \cup {"X-Payment"}
            /\ \A n \in DOMAIN req.headers \ {"X-Payment"} :
                  events[i].headers[n] = req.headers[n]

----------------------------------------------------------------------------
(* C27: a 402 whose body is not a payment-required envelope *)

\* the origin's 402 body was not JSON
MalformedChallenge == \E i \in EventsOf("parse402") : ~events[i].ok

\* the origin's 402 body was JSON without paymentRequirements: json.Unmarshal
\* succeeded and left the zero value, whose Network is ""
EmptyChallenge == \E i \in EventsOf("build") : events[i].network = ""

\* C27: for a buyer-mode resource, when the body of the origin's 402 is
\* malformed JSON or JSON without usable paymentRequirements, the caller
\* receives the origin's 402 as sent, no payment is constructed and the
\* origin is not called again
C27_Unparseable402 ==
    (pc = "done" /\ ctx.resource_config # << >> /\ ~NotBuyerMode
        /\ (MalformedChallenge \/ EmptyChallenge)) =>
        /\ resp = << OriginResponse(1, 402) >>
        /\ \A i \in EventsOf("build") : ~events[i].ok
        /\ Cardinality(OriginCalls) = 1

----------------------------------------------------------------------------
(* The registry as loadResources builds it, entry by entry *)

\* the target of the i-th configured entry; entries differ in it so that a
\* replaced entry can be told from the one that replaced it
TargetOf(i) ==
    IF i = 1 THEN "http://origin/1" ELSE IF i = 2 THEN "http://origin/2"
    ELSE "http://origin/3"

\* the configured path of an entry of the source
SourcePath(v, entry) == IF v = "file" THEN entry.Resource ELSE entry.Endpoint

\* a resources.json entry that only names a path and a target
PlainResource(raw, target) ==
    [Resource |-> raw, Type |-> "http", Middlewares |-> << >>, Auth |-> << >>,
     X402 |-> << >>, TargetURL |-> target]

\* loadResources: the lock is taken and g.resources is a fresh map
RegistryClear ==
    /\ pc = "idle"
    /\ resources' = << >>
    /\ events' = << >>
    /\ pc' = "loading"
    /\ UNCHANGED <<mainProc, requestBody, interceptorsChain, realWriter, capture, configFile,
                   authConfig, resourcesMutex, thr, snapshots, variant, source, privKey,
                   modified, req, ctx, resp, found>>

\* one iteration of the loop of loadResources
RegistryStore ==
    /\ pc = "loading"
    /\ Len(events) < Len(source)
    /\ LET i == Len(events) + 1
       IN  /\ resources' = storeResource(resources, convertEntry(variant, source[i]))
           /\ events' = Append(events, [op |-> "store", i |-> i])
    /\ UNCHANGED <<mainProc, requestBody, interceptorsChain, realWriter, capture, configFile,
                   authConfig, resourcesMutex, thr, snapshots, variant, source, privKey,
                   modified, req, pc, ctx, resp, found>>

\* the loop is over: lastLoadTime is set and the lock released
RegistryLoaded ==
    /\ pc = "loading"
    /\ Len(events) = Len(source)
    /\ pc' = "idle"
    /\ modified' = FALSE
    /\ UNCHANGED <<mainProc, requestBody, interceptorsChain, realWriter, capture, configFile,
                   authConfig, resourcesMutex, thr, snapshots, variant, source, privKey,
                   resources, req, ctx, resp, events, found>>

InitRegistry ==
    /\ authConfig = NoAdminAuth
    /\ variant \in {"file", "config"}
    /\ \E n \in 0..MaxEndpoints :
         \E raws \in [1..n -> RawPaths] :
            source = [i \in 1..n |->
                        IF variant = "file" THEN PlainResource(raws[i], TargetOf(i))
                        ELSE [PlainEndpoint(raws[i]) EXCEPT !.TargetURL = TargetOf(i)]]
    /\ privKey = ""
    /\ modified = TRUE
    /\ resources = << >>
    /\ req = [path |-> << "/" >>, headers |-> << >>]
    /\ pc = "idle"
    /\ ctx = EmptyCtx
    /\ resp = << >>
    /\ events = << >>
    /\ found = << >>
    /\ resourcesMutex = FreeMutex
    /\ thr = [t \in Threads |-> IdleThread]
    /\ snapshots = {resources}
    /\ configFile = IF variant = "file" THEN << >> ELSE source
    /\ capture = NewResponseCapture
    /\ realWriter = NewWriter
    /\ interceptorsChain = << >>
    /\ requestBody = [unread |-> << >>, closed |-> FALSE]
    /\ mainProc = NotStarted

NextRegistry ==
    \/ RegistryClear
    \/ RegistryStore
    \/ RegistryLoaded

SpecRegistry == InitRegistry /\ [][NextRegistry]_vars

\* a normalized path: leading slash, no trailing slash unless it is the root
IsNormalized(p) ==
    /\ Len(p) >= 1 /\ p[1] = "/"
    /\ HasSuffixSlash(p) => p = << "/" >>

\* the entries of the source stored so far whose path normalises to k
StoredAs(k) ==
    {i \in 1..Len(events) : NormalizePath(SourcePath(variant, source[i])) = k}

\* C30: every key of the registry equals the path field of its entry, that
\* path is normalized, and of the configured entries that normalise to the
\* same path the registry holds the later one
C30_KeysArePaths ==
    \A k \in DOMAIN resources :
        /\ resources[k].Resource = k
        /\ IsNormalized(k)
        /\ StoredAs(k) # {}
        /\ LET last == CHOOSE i \in StoredAs(k) : \A j \in StoredAs(k) : j <= i
           IN  resources[k].TargetURL = source[last].TargetURL

----------------------------------------------------------------------------
(* C31: registry state is accessed under the readers-writer lock *)

\* the goroutine's next step reads registry state: the map inside a read
\* operation, or lastLoadTime in the mtime comparison of the "file" deployment
ReadsRegistry(t) ==
    \/ thr[t].pc \in {"read1", "read2"}
    \/ variant = "file" /\ thr[t].pc = "check"

\* the goroutine's next step writes registry state: the fresh map, an entry,
\* or lastLoadTime at the end of the load
WritesRegistry(t) == thr[t].pc \in {"reset", "store"}

\* C31: a goroutine about to read the map or lastLoadTime holds the mutex at
\* least shared, and one about to write them holds it exclusively
C31_LockDiscipline ==
    \A t \in Threads :
        /\ ReadsRegistry(t) => (t \in resourcesMutex.readers \/ resourcesMutex.writer = t)
        /\ WritesRegistry(t) => resourcesMutex.writer = t

----------------------------------------------------------------------------
(* C32: one request, one policy, while the configuration is being changed *)

\* resources.json is rewritten while a request is anywhere in the handler
\* chain; the next ReloadResourcesIfNeeded of any stage loads it
EditDuringRequest ==
    /\ variant = "file"
    /\ \E s \in HotFileSources \ {source} : source' = s
    /\ modified' = TRUE
    /\ UNCHANGED <<mainProc, requestBody, interceptorsChain, realWriter, capture, configFile,
                   authConfig, resourcesMutex, thr, snapshots, variant, privKey, resources,
                   req, pc, ctx, resp, events, found>>

NextGoverned ==
    \/ EditDuringRequest
    \/ Arrive
    \/ Dispatch
    \/ ResourceAuthMiddleware
    \/ ResourcePayMiddleware
    \/ HandleResourceRequest

SpecGoverned == InitHotReload /\ [][NextGoverned]_vars

\* C32: when the payment stage hands a request on to the handler, the policy
\* its own lookup found is the policy the auth stage's lookup found, and it
\* is the policy in the context that the handler proxies to
C32_SinglePolicy ==
    [][(pc = "pay" /\ pc' = "handler") =>
          (found' = found /\ ctx'.resource_config = found')]_vars

----------------------------------------------------------------------------
(* C33: a settled payment is followed by the proxy pass *)

\* facilitator.Settle has answered success for this request
Settled == \E i \in EventsOf("settle") : events[i].result = "success"

\* C33: a request whose payment was settled has been forwarded to the origin
\* by the time it is answered
C33_SettledThenProxied ==
    (pc = "done" /\ Settled) => OriginCalls # {}

----------------------------------------------------------------------------
(* C34: the lookup does not depend on the iteration order of the map *)

\* the keys of the registry that are prefixes of the request path
MatchingKeys == {k \in DOMAIN resources : HasPrefix(req.path, k)}

\* C34: for the registry and request path at hand, FindResource returns the
\* policy it returned under every order in which the map can be iterated
C34_OrderIndependent ==
    pc = "looked" =>
        \A order \in KeyOrders(resources) :
            FindResourceIn(resources, order, req.path) = found

\* C34 witness: the prefix loop ran over two entries that both match the
\* path, and returned one of them
C34_Witness ==
    /\ pc = "looked"
    /\ Cardinality(MatchingKeys) >= 2
    /\ req.path \notin DOMAIN resources
    /\ TrimSuffixSlash(req.path) \notin DOMAIN resources
    /\ found # << >>

----------------------------------------------------------------------------
(* C35: reloading an unchanged source changes nothing *)

\* the goroutine has returned from a load that ran to its end
LoadCompleted(t) == thr[t].pc = "rlock" /\ thr[t].ran

\* C35: the map a load leaves is determined by the source it read, so a load
\* of the source the map was built from leaves the same paths with the same
\* policies; where the source cannot change (the configuration in memory)
\* every map published is that one map, however many requests reload
C35_ReloadIdempotent ==
    /\ \A t \in Threads :
         LoadCompleted(t) =>
            /\ thr[t].after = loadResources(variant, thr[t].data)
            /\ thr[t].before = loadResources(variant, thr[t].data) =>
                  thr[t].after = thr[t].before
    /\ variant # "file" =>
         /\ snapshots = {loadResources(variant, source)}
         /\ resourcesMutex.writer = 0 => resources = loadResources(variant, source)

\* C35 witness: one goroutine has reloaded a non-empty unchanged source and
\* left the map as it was, while another is about to reload it again
C35_Witness ==
    \E t, u \in Threads :
        /\ t # u
        /\ LoadCompleted(t)
        /\ thr[t].data = source /\ source # << >>
        /\ thr[t].after = thr[t].before
        /\ thr[u].pc = "lock"

----------------------------------------------------------------------------
(* DiscoverResources as a function of registry, filter, limit and offset *)

MaxItems == 3

MaxLimit == 3

MaxOffset == 2

\* the name of the i-th configured endpoint
KeyName(i) == CASE i = 1 -> "a" [] i = 2 -> "b" [] i = 3 -> "c" [] OTHER -> "d"

\* the calls of DiscoverResources made so far
DiscoverCalls == EventsOf("discover")

\* ResourceGateway.DiscoverResources, called for the first page of the
\* request or for the page after it: the registry is reloaded, the map is
\* ranged in some order, the items are filtered and the window is cut
CallDiscoverResources ==
    /\ pc = "paging"
    /\ Cardinality(DiscoverCalls) < 2
    /\ resources' = ReloadResourcesIfNeeded(variant, source, resources, modified)
    /\ modified' = FALSE
    /\ \E page \in {0, 1}, order \in KeyOrders(resources') :
         LET offset == req.offset + page * req.limit
         IN  /\ events' = Append(events, [op |-> "discover", type |-> req.type,
                                          limit |-> req.limit, offset |-> offset,
                                          order |-> order])
             /\ resp' = Append(resp, DiscoverResources(resources', order, req.type,
                                                       req.limit, offset))
    /\ UNCHANGED <<mainProc, requestBody, interceptorsChain, realWriter, capture, configFile,
                   authConfig, resourcesMutex, thr, snapshots, variant, source, privKey,
                   req, pc, ctx, found>>

InitPages ==
    /\ authConfig = NoAdminAuth
    /\ variant = "config"
    /\ \E n \in 0..MaxItems :
         \E types \in [1..n -> {"http", "mcp"}] :
            source = [i \in 1..n |->
                        [PlainEndpoint(<< "/", KeyName(i) >>) EXCEPT !.Type = types[i]]]
    /\ privKey = ""
    /\ modified = FALSE
    /\ resources = loadResources(variant, source)
    /\ \E t \in {"", "http", "mcp"}, l \in 1..MaxLimit, o \in 0..MaxOffset :
         req = [path |-> DiscoverRoute(variant), headers |-> << >>,
                type |-> t, limit |-> l, offset |-> o]
    /\ pc = "paging"
    /\ ctx = EmptyCtx
    /\ resp = << >>
    /\ events = << >>
    /\ found = << >>
    /\ resourcesMutex = FreeMutex
    /\ thr = [t \in Threads |-> IdleThread]
    /\ snapshots = {resources}
    /\ configFile = source
    /\ capture = NewResponseCapture
    /\ realWriter = NewWriter
    /\ interceptorsChain = << >>
    /\ requestBody = [unread |-> << >>, closed |-> FALSE]
    /\ mainProc = NotStarted

NextPages == CallDiscoverResources

SpecPages == InitPages /\ [][NextPages]_vars

\* the resources of the asked type in the order the call ranged the map
Filtered(order, resourceType) ==
    SelectSeq([i \in 1..Len(order) |-> resources[order[i]]],
              LAMBDA r : resourceType = "" \/ r.Type = resourceType)

Min(a, b) == IF a < b THEN a ELSE b

\* C36: the items of a discovery call are the window
\* L[min(offset,n) .. min(offset+limit,n)) of the list L of the resources of
\* the asked type: at most limit items, none when offset >= n, none of
\* another type; and the response's x402Version is 1
C36_Window ==
    \A c \in DiscoverCalls :
        LET L == Filtered(events[c].order, events[c].type)
            n == Len(L)
            limit == events[c].limit
            offset == events[c].offset
            items == resp[c].items
        IN  /\ Len(items) = Min(offset + limit, n) - Min(offset, n)
            /\ \A j \in 1..Len(items) :
                  /\ items[j].Resource = L[Min(offset, n) + j].Resource
                  /\ items[j].Type = L[Min(offset, n) + j].Type
                  /\ events[c].type # "" => items[j].Type = events[c].type
            /\ Len(items) <= limit
            /\ offset >= n => items = << >>
            /\ resp[c].x402Version = 1

\* C36 witness: of three resources two have the asked type, and the window
\* of limit 1 at offset 1 holds the second of them
C36_Witness ==
    \E c \in DiscoverCalls :
        /\ Cardinality(DOMAIN resources) = 3
        /\ events[c].type = "http" /\ events[c].limit = 1 /\ events[c].offset = 1
        /\ Len(Filtered(events[c].order, "http")) = 2
        /\ Len(resp[c].items) = 1
        /\ resp[c].items[1].Resource = Filtered(events[c].order, "http")[2].Resource

\* the resources a call listed
Listed(c) == {resp[c].items[j].Resource : j \in 1..Len(resp[c].items)}

\* C37: against unchanged entries, two discovery calls with the same filter,
\* limit and offset return the same items in the same order, and a page and
\* the page after it list no resource twice and together list the first
\* 2*limit matching resources
C37_StablePages ==
    \A c, d \in DiscoverCalls :
        /\ events[c].offset = events[d].offset => resp[c].items = resp[d].items
        /\ events[d].offset = events[c].offset + events[c].limit =>
              /\ Listed(c) \cap Listed(d) = {}
              /\ Cardinality(Listed(c) \cup Listed(d)) =
                    Len(resp[c].items) + Len(resp[d].items)
              /\ Len(resp[d].items) > 0 => Len(resp[c].items) = events[c].limit

----------------------------------------------------------------------------
(* main: the two servers, the shutdown and the exit code *)

Servers == {"gateway", "admin"}

\* Start up to ListenAndServe: the router is built and s.httpServer assigned
ServerSetup(s) ==
    /\ mainProc.exit = -1
    /\ mainProc[s] = "created"
    /\ mainProc' = [mainProc EXCEPT ![s] = "configured"]
    /\ UNCHANGED <<requestBody, interceptorsChain, realWriter, capture, configFile,
                   authConfig, resourcesMutex, thr, snapshots, variant, source, privKey,
                   modified, resources, req, pc, ctx, resp, events, found>>

\* ListenAndServe: the listener is bound and the server serves, or it fails,
\* Start returns the error and the goroutine of main logs it and calls cancel
ServerListen(s) ==
    /\ mainProc.exit = -1
    /\ mainProc[s] = "configured"
    /\ \/ /\ mainProc' = [mainProc EXCEPT ![s] = "serving"]
          /\ events' = events
       \/ /\ mainProc' = [mainProc EXCEPT ![s] = "failed", !.cancelled = TRUE]
          /\ events' = Append(events, [op |-> "startError", server |-> s])
    /\ UNCHANGED <<requestBody, interceptorsChain, realWriter, capture, configFile,
                   authConfig, resourcesMutex, thr, snapshots, variant, source, privKey,
                   modified, resources, req, pc, ctx, resp, found>>

\* SIGINT or SIGTERM is delivered to the quit channel
Signal ==
    /\ mainProc.exit = -1
    /\ ~mainProc.quit
    /\ mainProc' = [mainProc EXCEPT !.quit = TRUE]
    /\ UNCHANGED <<requestBody, interceptorsChain, realWriter, capture, configFile,
                   authConfig, resourcesMutex, thr, snapshots, variant, source, privKey,
                   modified, resources, req, pc, ctx, resp, events, found>>

\* the select of main: a signal arrived or the context was cancelled
MainSelect ==
    /\ mainProc.main = "select"
    /\ \E case \in {"quit", "done"} :
         /\ case = "quit" => mainProc.quit
         /\ case = "done" => mainProc.cancelled
         /\ events' = Append(events, [op |-> "select", case |-> case])
    /\ mainProc' = [mainProc EXCEPT !.main = "gateway"]
    /\ UNCHANGED <<requestBody, interceptorsChain, realWriter, capture, configFile,
                   authConfig, resourcesMutex, thr, snapshots, variant, source, privKey,
                   modified, resources, req, pc, ctx, resp, found>>

\* Stop of the server main has come to: nil when httpServer is nil, else
\* Shutdown, which can only fail on a server that is serving (the deadline
\* passes with connections open); on an error main exits with 1; after the
\* second Stop main returns. httpServer is assigned by the Start goroutine
\* without synchronisation, so Stop may still read nil after the assignment
MainStop ==
    /\ mainProc.main \in Servers
    /\ LET s == mainProc.main
           seesServer == {FALSE} \cup (IF mainProc[s] = "created" THEN {} ELSE {TRUE})
       IN  \E sees \in seesServer, shutdownErr \in BOOLEAN :
             /\ shutdownErr => (sees /\ mainProc[s] = "serving")
             /\ IF shutdownErr
                THEN /\ mainProc' = [mainProc EXCEPT !.main = "exited", !.exit = 1]
                     /\ events' = Append(events, [op |-> "stopError", server |-> s])
                ELSE /\ mainProc' =
                          [mainProc EXCEPT
                              ![s] = IF sees /\ @ \in {"configured", "serving"}
                                     THEN "closed" ELSE @,
                              !.main = IF s = "gateway" THEN "admin" ELSE "exited",
                              !.exit = IF s = "gateway" THEN @ ELSE 0]
                     /\ events' = Append(events, [op |-> "stopped", server |-> s])
    /\ UNCHANGED <<requestBody, interceptorsChain, realWriter, capture, configFile,
                   authConfig, resourcesMutex, thr, snapshots, variant, source, privKey,
                   modified, resources, req, pc, ctx, resp, found>>

InitMain ==
    /\ authConfig \in AdminConfigs
    /\ variant = "config"
    /\ source \in HotConfigSources
    /\ configFile = source
    /\ privKey = ""
    /\ modified = FALSE
    /\ resources = loadResources(variant, source)
    /\ req = [path |-> << >>, headers |-> << >>]
    /\ pc = "idle"
    /\ ctx = EmptyCtx
    /\ resp = << >>
    /\ events = << >>
    /\ found = << >>
    /\ resourcesMutex = FreeMutex
    /\ thr = [t \in Threads |-> IdleThread]
    /\ snapshots = {resources}
    /\ capture = NewResponseCapture
    /\ realWriter = NewWriter
    /\ interceptorsChain = << >>
    /\ requestBody = [unread |-> << >>, closed |-> FALSE]
    /\ mainProc = NotStarted

NextMain ==
    \/ \E s \in Servers : ServerSetup(s) \/ ServerListen(s)
    \/ Signal
    \/ MainSelect
    \/ MainStop

SpecMain == InitMain /\ [][NextMain]_vars

\* a Start has returned an error
StartFailed == EventsOf("startError") # {}

\* C38: once the process has exited, its exit code is not 0 if a server
\* failed to start, and an exit code of 0 means that main was woken by the
\* shutdown signal and both servers were stopped without error
C38_ExitStatus ==
    mainProc.exit # -1 =>
        /\ StartFailed => mainProc.exit # 0
        /\ mainProc.exit = 0 =>
              /\ \E i \in EventsOf("select") : events[i].case = "quit"
              /\ Cardinality(EventsOf("stopped")) = 2
              /\ EventsOf("stopError") = {}
============================================================================
